---- MODULE Spec2Model ----
(***************************************************************************)
(* Verification model of the shopping-assistant backend:                   *)
(*   - the OAuth2 token cache of the catalog client (getAccessToken),      *)
(*   - the search fan-out of analyzeImageWithFunctionCalling,              *)
(*   - the session lookup findRecentSessionByFrameHash.                    *)
(* Each component has its own specification over the shared variables; the *)
(* variables of the other components stay at their initial values.         *)
(***************************************************************************)
EXTENDS Integers, Sequences, FiniteSets, TLC

VARIABLES
    \* ---- token cache (repositories.js 259-315, 467-469)
    clock,          \* Date.now(), in milliseconds
    env,            \* process.env: which credentials are configured
    tokenCache,     \* the module-level slot {accessToken, expiresAt}
    tpc,            \* per caller: position inside getAccessToken
    tnow,           \* per caller: the local `now` taken at line 269
    treq,           \* per caller: number of the exchange request it issued
    tresp,          \* per caller: the response fetch resolved with
    tret,           \* per caller: outcome delivered to the caller
    exchangeCount,  \* number of POSTs sent to TOKEN_URL so far
    purged,         \* history: the tokens clearTokenCache has discarded, each
                    \* with the number of exchanges issued by then
    \* ---- search fan-out (repositories.js 546-613)
    functionCalls,  \* calls extracted from the vision response
    catalog,        \* what the catalog backend answers for each call
    dpc,            \* position inside analyzeImageWithFunctionCalling
    catalogCalls,   \* the (query, limit) calls that reached searchShopifyCatalog
    callState,      \* per dispatched call: the catalog call is "pending", "ok", "failed"
    searchResults,  \* per dispatched call: the promise of the map callback
    output,         \* the value returned by analyzeImageWithFunctionCalling
    overtaken,      \* history: a catalog call has ended while an earlier one
                    \* was still pending
    \* ---- session store (repositories.js 15-28, postgres pool)
    pool,           \* module-level pool of the postgres module
    schema,         \* whether the tables exist in the database
    dbNow,          \* database clock NOW(), in seconds
    dbTicks,        \* number of clock steps taken
    sessions,       \* rows of table sessions
    created,        \* outcome of the last createSession
    lookup,         \* outcome of the last session lookup, and their count n
    \* ---- request pipeline around the session cache (spec 2, 4.4)
    pipeline,       \* position, frame hash and outcome of the current run
    \* ---- analytics dispatch (shopify.js 51-107)
    ampEnv,         \* process.env: USE_AMPLITUDE, AMPLITUDE_API_KEY
    isInitialized,  \* module-level flag of ensureInit
    trackpc,        \* position inside track
    attempt,        \* the loop variable of track
    sends,          \* amplitude.track invocations made by the current call
    slept,          \* the delays the current call has slept, in order
    attemptOutcome, \* how the latest attempt of the current call ended
    trackret,       \* outcome of the current call for its caller
    trackCalls,     \* calls of track made so far
    delivered,      \* events the sink has accepted so far
    \* ---- catalog protocol client (repositories.js 320-352)
    mpc,            \* per caller: position inside executeMcpTool
    mcpRequests,    \* per caller: POSTs it has sent to MCP_ENDPOINT
    mresp,          \* per caller: the response its fetch resolved with
    mret,           \* per caller: outcome of executeMcpTool
    \* ---- analytics events (repositories.js 48-131)
    events,         \* rows of table analytics_events, in insertion order
    recorded,       \* outcome of the last insert into analytics_events
    boosts,         \* outcome of the last computeBoosts, and their count n
    \* ---- product search (repositories.js 360-462)
    toolOutcome,    \* what executeMcpTool ends with for the search
    searched,       \* outcome of searchProducts
    rawEntry,       \* the raw entry handed to normalizeProduct
    normalized,     \* outcome of normalizeProduct
    \* ---- callers of the postgres module (connectPostgres, getPostgres)
    dbUrl,          \* process.env.DATABASE_URL is set
    cpc,            \* per caller: position inside connectPostgres
    cret,           \* per caller: outcome of connectPostgres
    got             \* outcome of the last getPostgres, and their count n

tokenVars   == <<clock, env, tokenCache, tpc, tnow, treq, tresp, tret, exchangeCount, purged>>
fanoutVars  == <<functionCalls, catalog, dpc, catalogCalls, callState, searchResults, output,
                 overtaken>>
sessionVars == <<pool, schema, dbNow, dbTicks, sessions, created, lookup>>
pipelineVars == <<pipeline>>
trackVars == <<ampEnv, isInitialized, trackpc, attempt, sends, slept, attemptOutcome,
               trackret, trackCalls, delivered>>
mcpVars == <<mpc, mcpRequests, mresp, mret>>
eventVars == <<events, recorded, boosts>>
searchVars == <<toolOutcome, searched, rawEntry, normalized>>
connectVars == <<dbUrl, cpc, cret, got>>
vars == <<clock, env, tokenCache, tpc, tnow, treq, tresp, tret, exchangeCount, purged,
          functionCalls, catalog, dpc, catalogCalls, callState, searchResults, output,
          overtaken,
          pool, schema, dbNow, dbTicks, sessions, created, lookup,
          pipeline,
          ampEnv, isInitialized, trackpc, attempt, sends, slept, attemptOutcome,
          trackret, trackCalls, delivered,
          mpc, mcpRequests, mresp, mret,
          events, recorded, boosts,
          toolOutcome, searched, rawEntry, normalized,
          dbUrl, cpc, cret, got>>

\* what the operations of one component leave alone
exceptToken   == <<fanoutVars, sessionVars, pipelineVars, trackVars, mcpVars, eventVars, searchVars, connectVars>>
exceptFanout  == <<tokenVars, sessionVars, pipelineVars, trackVars, mcpVars, eventVars, searchVars, connectVars>>
exceptSession == <<tokenVars, fanoutVars, pipelineVars, trackVars, mcpVars, eventVars, searchVars, connectVars>>
exceptPipeline == <<tokenVars, fanoutVars, trackVars, mcpVars, eventVars, searchVars, connectVars>>
exceptTrack   == <<tokenVars, fanoutVars, sessionVars, pipelineVars, mcpVars, eventVars, searchVars, connectVars>>
exceptMcp     == <<fanoutVars, sessionVars, pipelineVars, trackVars, eventVars, searchVars, connectVars>>
exceptEvent   == <<tokenVars, fanoutVars, pipelineVars, trackVars, mcpVars, searchVars, connectVars>>
exceptSearch  == <<tokenVars, fanoutVars, sessionVars, pipelineVars, trackVars, mcpVars,
                   eventVars, connectVars>>
exceptConnect == <<tokenVars, fanoutVars, pipelineVars, trackVars, mcpVars, eventVars,
                   searchVars>>

(***************************************************************************)
(* Bounds of the model                                                     *)
(***************************************************************************)
NumCallers == 2      \* concurrent callers of getAccessToken
MaxTicks == 2        \* clock steps explored
MaxVaried == 2       \* vision responses up to this length are enumerated in full
MaxCalls == 9        \* longest vision response explored
MaxDbTicks == 3      \* database clock steps explored
MaxSessions == 2     \* rows inserted into table sessions
MaxLookups == 2      \* session lookups made
MaxTrackCalls == 2   \* calls of track made
MaxEvents == 3       \* rows inserted into table analytics_events
MaxBoostCalls == 1   \* calls of computeBoosts made
MaxGets == 3         \* calls of getPostgres made

Callers == 1..NumCallers
TickMs == 30 * 1000
\* expires_in values the endpoint may report; 0 stands for an absent field
ExpiresInValues == {0, 30, 90}

(***************************************************************************)
(* Token cache                                                             *)
(***************************************************************************)
Null == "null"
Undefined == "undefined"

\* 60 s safety buffer, line 272
BUFFER_MS == 60000
\* default lifetime when expires_in is absent, line 306
DEFAULT_EXPIRES_IN == 3600

EmptyTokenCache == [accessToken |-> Null, expiresAt |-> 0]

\* JavaScript truthiness of an access token value
Truthy(tok) == tok \notin {Null, Undefined}


\* the validity test without the 60 s buffer
CacheValidNoBuffer(cache, now) ==
    Truthy(cache.accessToken) /\ cache.expiresAt > now

\* line 272: tokenCache.accessToken && tokenCache.expiresAt > now + 60000
CacheValid(cache, now) ==
    Truthy(cache.accessToken) /\ cache.expiresAt > now + BUFFER_MS

\* the test that fires only when both are absent
CredentialsBothMissing(e) == ~e.clientId /\ ~e.clientSecret

\* line 282: !clientId || !clientSecret
CredentialsMissing(e) == ~e.clientId \/ ~e.clientSecret

\* line 306: data.expires_in || 3600
ExpiresIn(data) ==
    IF data.expires_in # 0 THEN data.expires_in ELSE DEFAULT_EXPIRES_IN

\* lines 307-310: the slot written after a parsed 2xx response
RefreshedCache(data, now) ==
    [accessToken |-> data.access_token,
     expiresAt   |-> now + ExpiresIn(data) * 1000]

\* Responses of the credential exchange endpoint to request number r: a
\* non-2xx status, a 2xx whose body is not JSON, or a 2xx with a JSON object
\* that may lack access_token and may lack expires_in.
NoData == [access_token |-> Undefined, expires_in |-> 0]
NoResponse == [ok |-> FALSE, json |-> FALSE, data |-> NoData]
TokenBodies(r) ==
    [access_token : {ToString(r), Undefined}, expires_in : ExpiresInValues]
TokenResponses(r) ==
    {[ok |-> FALSE, json |-> FALSE, data |-> NoData]}
    \cup {[ok |-> TRUE, json |-> FALSE, data |-> NoData]}
    \cup {[ok |-> TRUE, json |-> TRUE, data |-> d] : d \in TokenBodies(r)}

NoReturn == [kind |-> "none", token |-> Null]
Threw == [kind |-> "error", token |-> Null]

TokenIdle ==
    /\ clock = 0
    /\ tokenCache = EmptyTokenCache
    /\ tpc = [c \in Callers |-> "idle"]
    /\ tnow = [c \in Callers |-> 0]
    /\ treq = [c \in Callers |-> 0]
    /\ tresp = [c \in Callers |-> NoResponse]
    /\ tret = [c \in Callers |-> NoReturn]
    /\ exchangeCount = 0
    /\ purged = {}

TokenInit ==
    /\ env \in [clientId : BOOLEAN, clientSecret : BOOLEAN]
    /\ TokenIdle

TokenQuiet ==
    /\ env = [clientId |-> TRUE, clientSecret |-> TRUE]
    /\ TokenIdle

\* Date.now() advances
Tick ==
    /\ clock + TickMs <= MaxTicks * TickMs
    /\ clock' = clock + TickMs
    /\ UNCHANGED <<env, tokenCache, tpc, tnow, treq, tresp, tret, exchangeCount, purged>>
    /\ UNCHANGED exceptToken

\* getAccessToken, lines 269-296: from entry up to the await of fetch
getAccessToken(c) ==
    /\ tpc[c] = "idle"
    /\ IF CacheValid(tokenCache, clock)
       THEN /\ tret' = [tret EXCEPT ![c] = [kind |-> "cached", token |-> tokenCache.accessToken]]
            /\ tpc' = [tpc EXCEPT ![c] = "done"]
            /\ UNCHANGED <<tnow, treq, exchangeCount>>
       ELSE IF CredentialsMissing(env)
       THEN /\ tret' = [tret EXCEPT ![c] = Threw]
            /\ tpc' = [tpc EXCEPT ![c] = "done"]
            /\ UNCHANGED <<tnow, treq, exchangeCount>>
       ELSE /\ exchangeCount' = exchangeCount + 1
            /\ treq' = [treq EXCEPT ![c] = exchangeCount + 1]
            /\ tnow' = [tnow EXCEPT ![c] = clock]
            /\ tpc' = [tpc EXCEPT ![c] = "fetching"]
            /\ UNCHANGED tret
    /\ UNCHANGED <<clock, env, tokenCache, tresp, purged>>
    /\ UNCHANGED exceptToken

\* line 286: the awaited fetch resolves with the endpoint's response
getAccessTokenFetched(c, response) ==
    /\ tpc[c] = "fetching"
    /\ tresp' = [tresp EXCEPT ![c] = response]
    /\ tpc' = [tpc EXCEPT ![c] = "parsing"]
    /\ UNCHANGED <<clock, env, tokenCache, tnow, treq, tret, exchangeCount, purged>>
    /\ UNCHANGED exceptToken

\* getAccessToken, lines 298-314: the body has been read (response.text() on
\* a non-2xx status, response.json() otherwise); the rest runs without a gap,
\* and the locals `now` and `response` end with the call
getAccessTokenResume(c) ==
    /\ tpc[c] = "parsing"
    /\ tpc' = [tpc EXCEPT ![c] = "done"]
    /\ IF ~tresp[c].ok \/ ~tresp[c].json
       THEN /\ tret' = [tret EXCEPT ![c] = Threw]
            /\ UNCHANGED tokenCache
       ELSE /\ tokenCache' = RefreshedCache(tresp[c].data, tnow[c])
            /\ tret' = [tret EXCEPT ![c] = [kind |-> "fresh", token |-> tresp[c].data.access_token]]
    /\ tnow' = [tnow EXCEPT ![c] = 0]
    /\ tresp' = [tresp EXCEPT ![c] = NoResponse]
    /\ UNCHANGED <<clock, env, treq, exchangeCount, purged>>
    /\ UNCHANGED exceptToken

\* the reset that forgets only the expiry
ClearedCacheKeepsToken(cache) == [cache EXCEPT !.expiresAt = 0]

\* lines 467-468: accessToken = null, expiresAt = 0
ClearedCache(cache) == [accessToken |-> Null, expiresAt |-> 0]

\* lines 467-469; the history notes a token that was in the slot
clearTokenCache ==
    /\ tokenCache # EmptyTokenCache
    /\ tokenCache' = ClearedCache(tokenCache)
    /\ purged' = IF Truthy(tokenCache.accessToken)
                 THEN purged \cup {[token |-> tokenCache.accessToken,
                                    count |-> exchangeCount]}
                 ELSE purged
    /\ UNCHANGED <<clock, env, tpc, tnow, treq, tresp, tret, exchangeCount>>
    /\ UNCHANGED exceptToken

\* lines 279-280 read process.env at every call: between two calls the
\* process environment may gain or lose either credential
setEnv(e) ==
    /\ env # e
    /\ env' = e
    /\ UNCHANGED <<clock, tokenCache, tpc, tnow, treq, tresp, tret, exchangeCount, purged>>
    /\ UNCHANGED exceptToken

TokenNext ==
    \/ Tick
    \/ \E c \in Callers : getAccessToken(c)
    \/ \E c \in Callers : \E response \in TokenResponses(treq[c]) :
           getAccessTokenFetched(c, response)
    \/ \E c \in Callers : getAccessTokenResume(c)
    \/ clearTokenCache

(***************************************************************************)
(* Catalog protocol client: executeMcpTool (repositories.js 320-352); each *)
(* caller makes one call, whose first step is its getAccessToken           *)
(***************************************************************************)
\* What fetch(MCP_ENDPOINT) ends with: a network failure, a non-2xx status,
\* a 2xx whose body is not JSON, or a 2xx envelope with a result or with an
\* error object.
NoEnvelope == [error |-> Undefined, result |-> Undefined]
NoMcpResponse == [network |-> FALSE, ok |-> FALSE, json |-> FALSE, envelope |-> NoEnvelope]
McpEnvelopes ==
    { [error |-> Undefined, result |-> "r1"],
      [error |-> Undefined, result |-> Undefined],
      [error |-> "e1", result |-> Undefined],
      [error |-> "e1", result |-> "r1"] }
McpResponses ==
    {[network |-> TRUE, ok |-> FALSE, json |-> FALSE, envelope |-> NoEnvelope]}
    \cup {[network |-> FALSE, ok |-> FALSE, json |-> FALSE, envelope |-> NoEnvelope]}
    \cup {[network |-> FALSE, ok |-> TRUE, json |-> FALSE, envelope |-> NoEnvelope]}
    \cup {[network |-> FALSE, ok |-> TRUE, json |-> TRUE, envelope |-> e] : e \in McpEnvelopes}

\* an envelope check that never sees the error field
EnvelopeNeverHasError(envelope) == FALSE

\* line 347: if (result.error)
EnvelopeHasError(envelope) == envelope.error # Undefined

NoMcpReturn == [kind |-> "none", value |-> Undefined]
McpThrew(kind) == [kind |-> kind, value |-> Undefined]

McpIdle ==
    /\ mpc = [c \in Callers |-> "token"]
    /\ mcpRequests = [c \in Callers |-> 0]
    /\ mresp = [c \in Callers |-> NoMcpResponse]
    /\ mret = [c \in Callers |-> NoMcpReturn]

\* line 321: executeMcpTool begins with its call of getAccessToken
executeMcpTool(c) ==
    /\ mpc[c] = "token"
    /\ getAccessToken(c)

\* lines 321-338: getAccessToken has ended; its error propagates, its token
\* goes into the one request that is sent
executeMcpToolRequest(c) ==
    /\ mpc[c] = "token"
    /\ tpc[c] = "done"
    /\ IF tret[c].kind = "error"
       THEN /\ mret' = [mret EXCEPT ![c] = McpThrew("token")]
            /\ mpc' = [mpc EXCEPT ![c] = "done"]
            /\ UNCHANGED mcpRequests
       ELSE /\ mcpRequests' = [mcpRequests EXCEPT ![c] = @ + 1]
            /\ mpc' = [mpc EXCEPT ![c] = "fetching"]
            /\ UNCHANGED mret
    /\ UNCHANGED mresp
    /\ UNCHANGED tokenVars
    /\ UNCHANGED exceptMcp

\* line 323: the awaited fetch settles; a network failure rejects it
executeMcpToolFetched(c, response) ==
    /\ mpc[c] = "fetching"
    /\ mresp' = [mresp EXCEPT ![c] = response]
    /\ IF response.network
       THEN /\ mret' = [mret EXCEPT ![c] = McpThrew("transport")]
            /\ mpc' = [mpc EXCEPT ![c] = "done"]
       ELSE /\ mpc' = [mpc EXCEPT ![c] = "parsing"]
            /\ UNCHANGED mret
    /\ UNCHANGED mcpRequests
    /\ UNCHANGED tokenVars
    /\ UNCHANGED exceptMcp

\* lines 340-351: the body has been read (response.text() on a non-2xx
\* status, response.json() otherwise)
executeMcpToolResume(c) ==
    /\ mpc[c] = "parsing"
    /\ mpc' = [mpc EXCEPT ![c] = "done"]
    /\ mret' = [mret EXCEPT ![c] =
                  IF ~mresp[c].ok THEN McpThrew("transport")
                  ELSE IF ~mresp[c].json THEN McpThrew("parse")
                  ELSE IF EnvelopeHasError(mresp[c].envelope) THEN McpThrew("application")
                  ELSE [kind |-> "returned", value |-> mresp[c].envelope.result]]
    /\ UNCHANGED <<mcpRequests, mresp>>
    /\ UNCHANGED tokenVars
    /\ UNCHANGED exceptMcp

\* the answers of the credential exchange explored with executeMcpTool: a
\* non-2xx status, a token of the default or of a short lifetime, and a body
\* without access_token
McpTokenResponses(r) ==
    {resp \in TokenResponses(r) :
        /\ resp.ok => resp.json
        /\ resp.data.expires_in \in {0, 30}
        /\ resp.data.access_token = Undefined => resp.data.expires_in = 0}

McpNext ==
    \/ \E c \in Callers : executeMcpTool(c)
    \/ \E c \in Callers : \E response \in McpTokenResponses(treq[c]) :
           getAccessTokenFetched(c, response)
    \/ \E c \in Callers : getAccessTokenResume(c)
    \/ \E c \in Callers : executeMcpToolRequest(c)
    \/ \E c \in Callers : \E response \in McpResponses : executeMcpToolFetched(c, response)
    \/ \E c \in Callers : executeMcpToolResume(c)

(***************************************************************************)
(* Search fan-out: analyzeImageWithFunctionCalling                         *)
(***************************************************************************)
\* line 577: functionCalls.slice(0, 8)
MAX_SEARCHES == 8
\* line 578: limit = 3
DEFAULT_LIMIT == 3

Min(a, b) == IF a <= b THEN a ELSE b

Queries == {"q1", "q2"}

\* Products as the catalog returns them; url may be missing.
ProdA == [id |-> "A", url |-> "u1"]
ProdB == [id |-> "B", url |-> "u1"]
ProdC == [id |-> "C", url |-> "u2"]
ProdD == [id |-> "D", url |-> Undefined]
ProdE == [id |-> "E", url |-> Undefined]
ProdF == [id |-> "F", url |-> "u2"]

\* What the catalog backend holds for each query.
CatalogTables ==
    { [q \in Queries |-> IF q = "q1" THEN <<ProdA, ProdB, ProdC>> ELSE <<ProdD, ProdE, ProdF>>],
      [q \in Queries |-> IF q = "q1" THEN <<ProdC, ProdD>> ELSE <<ProdF, ProdA, ProdE>>] }

\* args of a function call: limit is optional
CallArgs == [query : Queries] \cup [query : Queries, limit : {1}]
\* a call as extractFunctionCalls builds it, lines 621-624
FunctionCall(args) == [name |-> "searchShopifyCatalog", args |-> args]

\* Vision responses: every sequence of calls up to MaxVaried, and longer ones
\* that alternate the two queries.
AlternatingArgs(i) == [query |-> IF i % 2 = 1 THEN "q1" ELSE "q2"]
VisionResponses ==
    UNION {[1..n -> {FunctionCall(a) : a \in CallArgs}] : n \in 0..MaxVaried}
    \cup {[i \in 1..n |-> FunctionCall(AlternatingArgs(i))] : n \in (MaxVaried + 1)..MaxCalls}


\* dispatch without the slice
AcceptedAll(calls) == calls

\* line 577: the calls that are dispatched
Accepted(calls) == SubSeq(calls, 1, Min(Len(calls), MAX_SEARCHES))

\* line 578: const { query, limit = 3 } = call.args
QueryOf(call) == call.args.query
LimitOf(call) ==
    IF "limit" \in DOMAIN call.args THEN call.args.limit ELSE DEFAULT_LIMIT

\* shopify.js 6-22: the catalog search answers {query, products}, with at
\* most `limit` products
searchShopifyCatalog(table, query, limit) ==
    [query |-> query,
     products |-> SubSeq(table[query], 1, Min(limit, Len(table[query])))]

\* lines 579-584: what the map callback's promise settles to, given how the
\* catalog call ended
Pending == [state |-> "pending", value |-> [query |-> Undefined, products |-> <<>>]]

\* the map callback without its try/catch: a failed search rejects
SearchCallbackNoCatch(table, call, ended) ==
    IF ended = "ok"
    THEN [state |-> "fulfilled",
          value |-> searchShopifyCatalog(table, QueryOf(call), LimitOf(call))]
    ELSE [state |-> "rejected",
          value |-> [query |-> QueryOf(call), products |-> <<>>]]

SearchCallback(table, call, ended) ==
    IF ended = "ok"
    THEN [state |-> "fulfilled",
          value |-> searchShopifyCatalog(table, QueryOf(call), LimitOf(call))]
    ELSE [state |-> "fulfilled",
          value |-> [query |-> QueryOf(call), products |-> <<>>]]

\* Promise.all, line 576: rejects once a promise has rejected, and otherwise
\* fulfils once all have fulfilled
PromiseAllRejected(promises) ==
    \E i \in DOMAIN promises : promises[i].state = "rejected"

\* a gather that continues once any promise has settled
PromiseAnySettled(promises) ==
    \/ promises = <<>>
    \/ \E i \in DOMAIN promises : promises[i].state # "pending"

\* Promise.all, line 576: when the awaited promise has settled
PromiseAllSettled(promises) ==
    \/ PromiseAllRejected(promises)
    \/ \A i \in DOMAIN promises : promises[i].state = "fulfilled"

\* the loop body relabelling a kept product with the query of every later
\* duplicate
VisitProductRelabels(product, query, acc) ==
    IF product.url \notin acc.seenUrls
    THEN [seenUrls |-> acc.seenUrls \cup {product.url},
          allProducts |-> Append(acc.allProducts,
                                 [id |-> product.id, url |-> product.url,
                                  searchQuery |-> query])]
    ELSE [seenUrls |-> acc.seenUrls,
          allProducts |-> [k \in DOMAIN acc.allProducts |->
                             IF acc.allProducts[k].url = product.url
                             THEN [id |-> acc.allProducts[k].id, url |-> product.url,
                                   searchQuery |-> query]
                             ELSE acc.allProducts[k]]]

\* the loop body keeping the last product of each url instead of the first
VisitProductLastWins(product, query, acc) ==
    [seenUrls |-> acc.seenUrls \cup {product.url},
     allProducts |-> Append(SelectSeq(acc.allProducts, LAMBDA p : p.url # product.url),
                            [id |-> product.id, url |-> product.url,
                             searchQuery |-> query])]

\* lines 594-600: the body of the inner loop; acc holds seenUrls and
\* allProducts
VisitProduct(product, query, acc) ==
    IF product.url \notin acc.seenUrls
    THEN [seenUrls |-> acc.seenUrls \cup {product.url},
          allProducts |-> Append(acc.allProducts,
                                 [id |-> product.id, url |-> product.url,
                                  searchQuery |-> query])]
    ELSE acc

\* the single element of a singleton set (binds a loop state to its value)
TheOne(S) == CHOOSE x \in S : TRUE

\* line 593: the inner loop over one result's products, from the j-th on
RECURSIVE AggregateProducts(_, _, _, _)
AggregateProducts(products, j, query, acc) ==
    IF j > Len(products) THEN acc
    ELSE TheOne({AggregateProducts(products, j + 1, query, next) :
                    next \in {VisitProduct(products[j], query, acc)}})

\* line 592: the outer loop over searchResults, from the i-th on
RECURSIVE AggregateResults(_, _, _)
AggregateResults(results, i, acc) ==
    IF i > Len(results) THEN acc.allProducts
    ELSE TheOne({AggregateResults(results, i + 1, next) :
                    next \in {AggregateProducts(results[i].products, 1,
                                                results[i].query, acc)}})

\* lines 589-590
NothingSeen == [seenUrls |-> {}, allProducts |-> <<>>]

\* the summary that counts what is left of each result after deduplication
DispatchResultCountsKept(results) ==
    LET kept == AggregateResults(results, 1, NothingSeen) IN
    [kind |-> "returned",
     products |-> kept,
     searches |-> [i \in DOMAIN results |->
                     [query |-> results[i].query,
                      count |-> Cardinality({p \in DOMAIN results[i].products :
                                    \E k \in DOMAIN kept :
                                        /\ kept[k].url = results[i].products[p].url
                                        /\ \A h \in 1..(i - 1) : \A q \in DOMAIN results[h].products :
                                               results[h].products[q].url # kept[k].url})]]]

\* lines 606-612
DispatchResult(results) ==
    [kind |-> "returned",
     products |-> AggregateResults(results, 1, NothingSeen),
     searches |-> [i \in DOMAIN results |->
                     [query |-> results[i].query, count |-> Len(results[i].products)]]]

NoOutput == [kind |-> "none", products |-> <<>>, searches |-> <<>>]
DispatchThrew == [kind |-> "threw", products |-> <<>>, searches |-> <<>>]

FanoutIdle ==
    /\ dpc = "idle"
    /\ catalogCalls = <<>>
    /\ callState = <<>>
    /\ searchResults = <<>>
    /\ output = NoOutput
    /\ overtaken = FALSE

FanoutInit ==
    /\ functionCalls \in VisionResponses
    /\ catalog \in CatalogTables
    /\ FanoutIdle

FanoutQuiet ==
    /\ functionCalls = <<>>
    /\ catalog = [q \in Queries |-> <<>>]
    /\ FanoutIdle

\* lines 571-586, up to the await: every accepted call runs its callback up
\* to the await of searchShopifyCatalog
analyzeImageWithFunctionCalling ==
    /\ dpc = "idle"
    /\ dpc' = "dispatched"
    /\ LET accepted == Accepted(functionCalls) IN
        /\ catalogCalls' = [i \in DOMAIN accepted |->
                              [query |-> QueryOf(accepted[i]), limit |-> LimitOf(accepted[i])]]
        /\ callState' = [i \in DOMAIN accepted |-> "pending"]
        /\ searchResults' = [i \in DOMAIN accepted |-> Pending]
    /\ UNCHANGED <<functionCalls, catalog, output, overtaken>>
    /\ UNCHANGED exceptFanout

\* one catalog call ends, with an answer or with an error; its callback
\* runs to its return
SearchSettles(i, ended) ==
    /\ dpc = "dispatched"
    /\ i \in DOMAIN callState
    /\ callState[i] = "pending"
    /\ callState' = [callState EXCEPT ![i] = ended]
    /\ searchResults' = [searchResults EXCEPT
                           ![i] = SearchCallback(catalog, functionCalls[i], ended)]
    /\ overtaken' = (overtaken \/ \E k \in 1..(i - 1) : callState[k] = "pending")
    /\ UNCHANGED <<functionCalls, catalog, dpc, catalogCalls, output>>
    /\ UNCHANGED exceptFanout

\* lines 586-612: Promise.all settles and the function runs to its return
analyzeImageGathered ==
    /\ dpc = "dispatched"
    /\ PromiseAllSettled(searchResults)
    /\ dpc' = "returned"
    /\ output' = IF PromiseAllRejected(searchResults)
                 THEN DispatchThrew
                 ELSE DispatchResult([i \in DOMAIN searchResults |-> searchResults[i].value])
    /\ UNCHANGED <<functionCalls, catalog, catalogCalls, callState, searchResults, overtaken>>
    /\ UNCHANGED exceptFanout

FanoutNext ==
    \/ analyzeImageWithFunctionCalling
    \/ \E i \in 1..MAX_SEARCHES : \E ended \in {"ok", "failed"} : SearchSettles(i, ended)
    \/ analyzeImageGathered

(***************************************************************************)
(* Session store: connectPostgres, createSession and the session lookup    *)
(***************************************************************************)
SessionIds == {"s1", "s2"}
FrameHashes == {"h1", "h2"}
\* maxAgeSeconds values a caller passes
MaxAges == {0, 300}
\* steps of the database clock, in seconds
DbSteps == {1, 299}

\* Session objects handed to createSession
SessionInputs ==
    [sessionId : SessionIds, videoId : {"v1"}, timestampSec : {0},
     frameHash : FrameHashes, items : {<<>>}, results : {<<>>}]

\* repositories.js 34-44 with the column default of postgres line 44:
\* the row an INSERT of `session` creates at time `now`
SessionRow(session, now) ==
    [session_id |-> session.sessionId,
     video_id |-> session.videoId,
     timestamp_sec |-> session.timestampSec,
     frame_hash |-> session.frameHash,
     items |-> session.items,
     results |-> session.results,
     created_at |-> now]

\* repositories.js 3-13
mapSessionRow(row) ==
    [sessionId |-> row.session_id,
     videoId |-> row.video_id,
     timestampSec |-> row.timestamp_sec,
     frameHash |-> row.frame_hash,
     items |-> row.items,
     results |-> row.results,
     createdAt |-> row.created_at]

\* the WHERE clause without the test of frame_hash
SessionMatchesAnyHash(row, frameHash, cutoff) ==
    row.created_at >= cutoff

\* repositories.js 21: WHERE frame_hash = $1 AND created_at >= $2
SessionMatches(row, frameHash, cutoff) ==
    row.frame_hash = frameHash /\ row.created_at >= cutoff


\* the query with ORDER BY created_at ASC
OldestSessionRows(table, frameHash, cutoff) ==
    LET matching == {r \in table : SessionMatches(r, frameHash, cutoff)} IN
    IF matching = {} THEN {<<>>}
    ELSE {<<r>> : r \in {m \in matching :
                           \A o \in matching : m.created_at <= o.created_at}}

\* repositories.js 22-23: ORDER BY created_at DESC LIMIT 1, as the set of
\* `rows` arrays the query may answer (rows of equal created_at tie)
RecentSessionRows(table, frameHash, cutoff) ==
    LET matching == {r \in table : SessionMatches(r, frameHash, cutoff)} IN
    IF matching = {} THEN {<<>>}
    ELSE {<<r>> : r \in {m \in matching :
                           \A o \in matching : m.created_at >= o.created_at}}

\* a table without its primary key: no session_id is ever taken
SessionIdFree(table, sessionId) == FALSE

\* postgres module 38: session_id TEXT PRIMARY KEY
SessionIdTaken(table, sessionId) ==
    \E r \in table : r.session_id = sessionId

\* The cutoff the caller of findRecentSessionByFrameHash passes for
\* lookup(frameHash, maxAgeSeconds)
LookupCutoff(now, maxAgeSeconds) == now - maxAgeSeconds

NoCreated == [outcome |-> "none", sessionId |-> "s1"]
NoLookup == [n |-> 0, outcome |-> "none", frameHash |-> "h1", maxAge |-> 0, result |-> <<>>]

SessionIdle ==
    /\ pool = "unset"
    /\ schema = FALSE
    /\ dbNow = 0
    /\ dbTicks = 0
    /\ sessions = {}
    /\ created = NoCreated
    /\ lookup = NoLookup

SessionInit == SessionIdle
SessionQuiet == SessionIdle

DbTick ==
    /\ dbTicks < MaxDbTicks
    /\ \E d \in DbSteps : dbNow' = dbNow + d
    /\ dbTicks' = dbTicks + 1
    /\ UNCHANGED <<pool, schema, sessions, created, lookup>>
    /\ UNCHANGED exceptSession

\* postgres module 11-26: connectPostgres up to its first await
connectPostgres ==
    /\ pool = "unset"
    /\ pool' = "set"
    /\ UNCHANGED <<schema, dbNow, dbTicks, sessions, created, lookup>>
    /\ UNCHANGED exceptSession

\* postgres module 28-32: the probe and ensureSchema have completed
connectPostgresDone ==
    /\ pool = "set"
    /\ ~schema
    /\ schema' = TRUE
    /\ UNCHANGED <<pool, dbNow, dbTicks, sessions, created, lookup>>
    /\ UNCHANGED exceptSession

\* Callers of the postgres module. Each caller calls connectPostgres once;
\* getPostgres is synchronous and may run between any two steps.
NotConnected == [kind |-> "none", schema |-> FALSE]
\* the call resolved with the pool; `ensured` tells whether ensureSchema had
\* completed by then
ResolvedPool(ensured) == [kind |-> "pool", schema |-> ensured]
ConnectThrew == [kind |-> "threw", schema |-> FALSE]
NotGot == [n |-> 0, kind |-> "none", schema |-> FALSE]

ConnectIdle ==
    /\ dbUrl = TRUE
    /\ cpc = [c \in Callers |-> "idle"]
    /\ cret = [c \in Callers |-> NotConnected]
    /\ got = NotGot

ConnectInit ==
    /\ dbUrl \in BOOLEAN
    /\ cpc = [c \in Callers |-> "idle"]
    /\ cret = [c \in Callers |-> NotConnected]
    /\ got = NotGot

\* postgres module 11-28: connectPostgres from entry to the await of the
\* probe; the pool is assigned at line 19, before the probe is sent
connectPostgresEnter(c) ==
    /\ cpc[c] = "idle"
    /\ IF pool = "set"
       THEN /\ cret' = [cret EXCEPT ![c] = ResolvedPool(schema)]
            /\ cpc' = [cpc EXCEPT ![c] = "done"]
            /\ UNCHANGED pool
       ELSE IF ~dbUrl
       THEN /\ cret' = [cret EXCEPT ![c] = ConnectThrew]
            /\ cpc' = [cpc EXCEPT ![c] = "done"]
            /\ UNCHANGED pool
       ELSE /\ pool' = "set"
            /\ cpc' = [cpc EXCEPT ![c] = "probing"]
            /\ UNCHANGED cret
    /\ UNCHANGED <<schema, dbNow, dbTicks, sessions, created, lookup, dbUrl, got>>
    /\ UNCHANGED exceptConnect

\* line 28: pool.query('SELECT 1') settles
connectPostgresProbed(c, ok) ==
    /\ cpc[c] = "probing"
    /\ IF ok
       THEN /\ cpc' = [cpc EXCEPT ![c] = "ensuring"]
            /\ UNCHANGED cret
       ELSE /\ cpc' = [cpc EXCEPT ![c] = "done"]
            /\ cret' = [cret EXCEPT ![c] = ConnectThrew]
    /\ UNCHANGED <<pool, schema, dbNow, dbTicks, sessions, created, lookup, dbUrl, got>>
    /\ UNCHANGED exceptConnect

\* lines 29-32: ensureSchema settles
connectPostgresEnsured(c, ok) ==
    /\ cpc[c] = "ensuring"
    /\ cpc' = [cpc EXCEPT ![c] = "done"]
    /\ IF ok
       THEN /\ schema' = TRUE
            /\ cret' = [cret EXCEPT ![c] = ResolvedPool(TRUE)]
       ELSE /\ cret' = [cret EXCEPT ![c] = ConnectThrew]
            /\ UNCHANGED schema
    /\ UNCHANGED <<pool, dbNow, dbTicks, sessions, created, lookup, dbUrl, got>>
    /\ UNCHANGED exceptConnect

\* postgres module 96-101
getPostgres ==
    /\ got.n < MaxGets
    /\ got' = IF pool = "unset"
              THEN [n |-> got.n + 1, kind |-> "threw", schema |-> FALSE]
              ELSE [n |-> got.n + 1, kind |-> "pool", schema |-> schema]
    /\ UNCHANGED <<pool, schema, dbNow, dbTicks, sessions, created, lookup, dbUrl, cpc, cret>>
    /\ UNCHANGED exceptConnect

ConnectNext ==
    \/ \E c \in Callers : connectPostgresEnter(c)
    \/ \E c \in Callers : \E ok \in BOOLEAN : connectPostgresProbed(c, ok)
    \/ \E c \in Callers : \E ok \in BOOLEAN : connectPostgresEnsured(c, ok)
    \/ getPostgres

\* postgres module 96-101: getPostgres throws unless pool is set; a query
\* fails when the table does not exist yet or the database is unavailable
QueryFails(dbDown) == pool = "unset" \/ ~schema \/ dbDown

\* repositories.js 30-46: the INSERT is rejected when the query cannot run or
\* the primary key is taken; `created` records the outcome of the call
createSessionCall(session, dbDown) ==
    /\ Cardinality(sessions) < MaxSessions
    /\ IF QueryFails(dbDown) \/ SessionIdTaken(sessions, session.sessionId)
       THEN /\ created' = [outcome |-> "threw", sessionId |-> session.sessionId]
            /\ UNCHANGED sessions
       ELSE /\ created' = [outcome |-> "ok", sessionId |-> session.sessionId]
            /\ sessions' = sessions \cup {SessionRow(session, dbNow)}
    /\ UNCHANGED <<pool, schema, dbNow, dbTicks, lookup>>

\* createSession called on its own
createSession(session, dbDown) ==
    /\ createSessionCall(session, dbDown)
    /\ UNCHANGED exceptSession

\* repositories.js 15-28, called for lookup(frameHash, maxAgeSeconds)
findRecentSessionByFrameHashCall(frameHash, maxAgeSeconds, dbDown) ==
    /\ lookup.n < MaxLookups
    /\ IF QueryFails(dbDown)
       THEN lookup' = [n |-> lookup.n + 1, outcome |-> "threw", frameHash |-> frameHash,
                       maxAge |-> maxAgeSeconds, result |-> <<>>]
       ELSE \E rows \in RecentSessionRows(sessions, frameHash,
                                          LookupCutoff(dbNow, maxAgeSeconds)) :
              lookup' = [n |-> lookup.n + 1, outcome |-> "returned", frameHash |-> frameHash,
                         maxAge |-> maxAgeSeconds,
                         result |-> IF rows = <<>> THEN <<>>
                                    ELSE <<mapSessionRow(rows[1])>>]
    /\ UNCHANGED <<pool, schema, dbNow, dbTicks, sessions, created>>

\* findRecentSessionByFrameHash called on its own
findRecentSessionByFrameHash(frameHash, maxAgeSeconds, dbDown) ==
    /\ findRecentSessionByFrameHashCall(frameHash, maxAgeSeconds, dbDown)
    /\ UNCHANGED exceptSession

(***************************************************************************)
(* Request pipeline around the session cache (spec 2, 4.4, 6, 7): look the *)
(* frame hash up; on a hit answer with the cached Session; on a miss run   *)
(* the vision identifier, the catalog search, and store a new Session.     *)
(***************************************************************************)
\* the freshness window the pipeline passes as maxAgeSeconds
FreshnessWindowSec == 300

NoAnswer == [kind |-> "none", session |-> <<>>]
PipelineIdle ==
    [pc |-> "idle", frameHash |-> "h1", visionCalls |-> 0, catalogRuns |-> 0,
     response |-> NoAnswer]

PipelineQuiet == pipeline = PipelineIdle

\* the Session a run for frameHash builds, under a new sessionId
NewSession(sessionId, frameHash) ==
    [sessionId |-> sessionId, videoId |-> "v1", timestampSec |-> 0,
     frameHash |-> frameHash, items |-> <<>>, results |-> <<>>]

\* a run starts: the Session Cache is checked first; a failed read counts
\* as a miss
shopFrame(frameHash, dbDown) ==
    /\ pipeline.pc \in {"idle", "done"}
    /\ findRecentSessionByFrameHashCall(frameHash, FreshnessWindowSec, dbDown)
    /\ pipeline' =
         IF lookup'.outcome = "returned" /\ lookup'.result # <<>>
         THEN [pc |-> "done", frameHash |-> frameHash, visionCalls |-> 0,
               catalogRuns |-> 0,
               response |-> [kind |-> "cached", session |-> lookup'.result]]
         ELSE [pc |-> "vision", frameHash |-> frameHash, visionCalls |-> 0,
               catalogRuns |-> 0, response |-> NoAnswer]
    /\ UNCHANGED exceptPipeline

\* the vision identifier answers, or fails and the run reports the failure
shopFrameIdentified(identified) ==
    /\ pipeline.pc = "vision"
    /\ pipeline' =
         IF identified
         THEN [pipeline EXCEPT !.pc = "search", !.visionCalls = @ + 1]
         ELSE [pipeline EXCEPT !.pc = "done", !.visionCalls = @ + 1,
                               !.response = [kind |-> "failed", session |-> <<>>]]
    /\ UNCHANGED sessionVars
    /\ UNCHANGED exceptPipeline

\* the Search Orchestrator has executed the search requests
shopFrameSearched ==
    /\ pipeline.pc = "search"
    /\ pipeline' = [pipeline EXCEPT !.pc = "store", !.catalogRuns = @ + 1]
    /\ UNCHANGED sessionVars
    /\ UNCHANGED exceptPipeline

\* the result is written back into the Session Cache; a failed write is
\* ignored
shopFrameStore(sessionId, dbDown) ==
    /\ pipeline.pc = "store"
    /\ ~SessionIdTaken(sessions, sessionId)
    /\ createSessionCall(NewSession(sessionId, pipeline.frameHash), dbDown)
    /\ pipeline' = [pipeline EXCEPT !.pc = "done",
                                    !.response = [kind |-> "computed", session |-> <<>>]]
    /\ UNCHANGED exceptPipeline

PipelineNext ==
    \/ DbTick
    \/ connectPostgres
    \/ connectPostgresDone
    \/ \E frameHash \in FrameHashes : \E dbDown \in BOOLEAN : shopFrame(frameHash, dbDown)
    \/ \E identified \in BOOLEAN : shopFrameIdentified(identified)
    \/ shopFrameSearched
    \/ \E sessionId \in SessionIds : \E dbDown \in BOOLEAN : shopFrameStore(sessionId, dbDown)

SessionNext ==
    \/ DbTick
    \/ connectPostgres
    \/ connectPostgresDone
    \/ \E session \in SessionInputs : \E dbDown \in BOOLEAN : createSession(session, dbDown)
    \/ \E frameHash \in FrameHashes : \E maxAgeSeconds \in MaxAges : \E dbDown \in BOOLEAN :
           findRecentSessionByFrameHash(frameHash, maxAgeSeconds, dbDown)

(***************************************************************************)
(* Product search: searchProducts and the normalizer                       *)
(* (repositories.js 360-462)                                               *)
(***************************************************************************)
\* JavaScript truthiness of a text-or-missing value
Falsy(v) == v \in {Null, Undefined, ""}
\* a || b
OrElse(a, b) == IF Falsy(a) THEN b ELSE a

\* the title that never reaches the caller
NoPlaceholder == Null

\* lines 424 and 441: the title of an entry without one
Placeholder == "Unknown Product"

\* Price values as they come in a payload: missing, null, a number, a
\* string, or an object {amount}
NoPrice == [t |-> "undefined", v |-> ""]
Num(v) == [t |-> "number", v |-> v]
Str(v) == [t |-> "string", v |-> v]
Money(v) == [t |-> "object", v |-> v]
PriceFalsy(price) ==
    \/ price.t \in {"undefined", "null"}
    \/ price.t = "string" /\ price.v = ""
    \/ price.t = "number" /\ price.v = "0"
PriceOr(a, b) == IF PriceFalsy(a) THEN b ELSE a
\* a ?? b
PriceNullish(a, b) == IF a.t \in {"undefined", "null"} THEN b ELSE a
\* price?.amount
Amount(price) == IF price.t = "object" THEN Str(price.v) ELSE NoPrice

\* line 456: Number.prototype.toFixed(2) on the numbers explored
ToFixed2(v) ==
    CASE v = "0" -> "0.00"
      [] v = "12.5" -> "12.50"
      [] v = "19.99" -> "19.99"
      [] v = "1299" -> "1299.00"
      [] OTHER -> "NaN"
\* line 458: parseFloat(price.replace(/[^0-9.]/g, '')) on the strings
\* explored; "NaN" when no number is read
StripAndParse(v) ==
    CASE v = "12.5" -> "12.5"
      [] v = "$19.99" -> "19.99"
      [] v = "$1,299" -> "1299"
      [] v = "12.50" -> "12.5"
      [] v = "19.99" -> "19.99"
      [] v = "1299.00" -> "1299"
      [] v = "0.00" -> "0"
      [] OTHER -> "NaN"
\* lines 454-462
parsePrice(price) ==
    CASE price.t \in {"undefined", "null"} -> Null
      [] price.t = "number" -> ToFixed2(price.v)
      [] price.t = "string" ->
            IF StripAndParse(price.v) = "NaN" THEN Null
            ELSE ToFixed2(StripAndParse(price.v))
      [] OTHER -> Null

\* Raw entries of a products payload. An entry is JSON null or an object;
\* absent fields are undefined, absent arrays are empty.
NoVariants == [present |-> FALSE, items |-> <<>>]
RawBlank ==
    [kind |-> "object",
     id |-> Undefined, product_id |-> Undefined,
     title |-> Undefined, name |-> Undefined, displayName |-> Undefined,
     image_url |-> Undefined, featured_image |-> Undefined, images |-> <<>>,
     min_price |-> NoPrice, max_price |-> NoPrice, price |-> NoPrice,
     product_url |-> Undefined, url |-> Undefined, handle |-> Undefined,
     vendor |-> Undefined, brand |-> Undefined,
     variants |-> NoVariants, media |-> <<>>,
     priceRangeMin |-> NoPrice, priceRangeMax |-> NoPrice, lookupUrl |-> Undefined]
RawNull == [RawBlank EXCEPT !.kind = "null"]
Variant1 ==
    [id |-> "v1", price |-> Money("$19.99"), variantUrl |-> "https://shop/v1",
     shopName |-> "StyleCo", mediaUrl |-> Undefined]
\* a flat product titled `title`
Flat(title) == [RawBlank EXCEPT !.title = title, !.price = Str("12.5"), !.url = "u1"]
\* a flat product that has a name instead of a title
Named == [RawBlank EXCEPT !.name = "n1", !.price = Num("1299")]
\* an offer with one variant
Offer ==
    [RawBlank EXCEPT !.id = "o1", !.title = "offer",
                     !.variants = [present |-> TRUE, items |-> <<Variant1>>],
                     !.lookupUrl = "https://shop/o1"]

\* x?.[0] of an array of texts
FirstOf(seq) == IF seq = <<>> THEN Undefined ELSE seq[1]
\* variants?.[0]?.<field> for the text fields of a variant
FirstVariantField(entry, field) ==
    IF entry.variants.items = <<>> THEN Undefined ELSE entry.variants.items[1][field]
\* variants?.[0]?.price
FirstVariantPrice(entry) ==
    IF entry.variants.items = <<>> THEN NoPrice ELSE entry.variants.items[1].price

\* lines 434-449
normalizeOffer(offer) ==
    LET minPrice == PriceNullish(offer.priceRangeMin, Amount(FirstVariantPrice(offer)))
        maxPrice == PriceNullish(offer.priceRangeMax, Amount(FirstVariantPrice(offer)))
    IN [title |-> OrElse(offer.title, OrElse(offer.displayName, Placeholder)),
        image_url |-> OrElse(FirstOf(offer.media),
                             OrElse(FirstVariantField(offer, "mediaUrl"), Null)),
        min_price |-> parsePrice(minPrice),
        max_price |-> parsePrice(maxPrice),
        product_url |-> OrElse(FirstVariantField(offer, "variantUrl"),
                               OrElse(offer.lookupUrl, Null)),
        vendor |-> OrElse(FirstVariantField(offer, "shopName"), Null),
        id |-> OrElse(offer.id, OrElse(FirstVariantField(offer, "id"), Null))]

\* line 420: product && product.id && product.title && product.variants
IsOffer(product) ==
    /\ product.kind # "null"
    /\ ~Falsy(product.id) /\ ~Falsy(product.title) /\ product.variants.present

\* line 424: the property read of a null product raises a TypeError
NormalizeThrows(product) == ~IsOffer(product) /\ product.kind = "null"

\* lines 419-432, for a product the function does not throw on
normalizeProduct(product) ==
    IF IsOffer(product) THEN normalizeOffer(product)
    ELSE [title |-> OrElse(product.title, OrElse(product.name, Placeholder)),
          image_url |-> OrElse(product.image_url,
                               OrElse(product.featured_image,
                                      OrElse(FirstOf(product.images), Null))),
          min_price |-> parsePrice(PriceOr(product.min_price,
                                           PriceOr(product.price, FirstVariantPrice(product)))),
          max_price |-> parsePrice(PriceOr(product.max_price,
                                           PriceOr(product.price, FirstVariantPrice(product)))),
          product_url |-> OrElse(product.product_url,
                                 OrElse(product.url, OrElse(product.handle, Null))),
          vendor |-> OrElse(product.vendor, OrElse(product.brand, Null)),
          id |-> OrElse(product.id, OrElse(product.product_id, Null))]

\* Values of a parsed payload: absent, an array of entries, or another
\* JSON value.
Absent == [kind |-> "absent", items |-> <<>>]
Other == [kind |-> "other", items |-> <<>>]
Array(items) == [kind |-> "array", items |-> items]
PayloadKeys == <<"products", "items", "results", "offers">>
\* a parsed payload: its root, and for an object root its four fields
Payload(root, fields) == [root |-> root, fields |-> fields]
NoFields == [k \in {"products", "items", "results", "offers"} |-> Absent]
ParsedPayloads ==
    {Payload(Array(items), NoFields) :
        items \in {<<>>, <<Flat("root")>>, <<Named, Offer>>, <<Flat("root"), RawNull>>}}
    \cup {Payload(Other, fields) :
            fields \in [{"products", "items", "results", "offers"} ->
                           {Absent, Other}]}
    \cup {Payload(Other, [k \in {"products", "items", "results", "offers"} |->
                             IF k \in present THEN Array(<<Flat(k)>>)
                             ELSE IF k \in other THEN Other ELSE Absent]) :
            present \in SUBSET {"products", "items", "results", "offers"},
            other \in {{}, {"products"}, {"items", "results"}, {"offers"}}}

\* lines 407-414; Array.isArray is false of an absent field
normalizeProductsPayload(parsed) ==
    IF parsed.root.kind = "array" THEN parsed.root
    ELSE IF parsed.fields["products"].kind = "array" THEN parsed.fields["products"]
    ELSE IF parsed.fields["items"].kind = "array" THEN parsed.fields["items"]
    ELSE IF parsed.fields["results"].kind = "array" THEN parsed.fields["results"]
    ELSE IF parsed.fields["offers"].kind = "array" THEN parsed.fields["offers"]
    ELSE Array(<<>>)

\* What executeMcpTool ends with: an error, or a result whose first content
\* part is missing, is not text, is text that is not JSON, or is text that
\* parses to a payload.
NoPayload == Payload(Other, NoFields)
ToolOutcomes ==
    {[kind |-> k, content |-> "none", parsed |-> NoPayload] :
        k \in {"transport", "application", "token"}}
    \cup {[kind |-> "returned", content |-> c, parsed |-> NoPayload] :
            c \in {"missing", "image", "badjson"}}
    \cup {[kind |-> "returned", content |-> "json", parsed |-> p] : p \in ParsedPayloads}

SearchThrew(kind) == [kind |-> kind, products |-> <<>>]
SearchReturned(products) == [kind |-> "returned", products |-> products]
NotSearched == [kind |-> "none", products |-> <<>>]

\* lines 370-397, after executeMcpTool has returned `outcome`
SearchProductsResult(outcome) ==
    IF outcome.content \in {"missing", "image"} THEN SearchReturned(<<>>)
    ELSE IF outcome.content = "badjson" THEN SearchThrew("parse")
    ELSE LET products == normalizeProductsPayload(outcome.parsed) IN
         IF products.kind # "array" THEN SearchReturned(<<>>)
         ELSE IF \E i \in DOMAIN products.items : NormalizeThrows(products.items[i])
         THEN SearchThrew("type")
         ELSE SearchReturned([i \in DOMAIN products.items |->
                                normalizeProduct(products.items[i])])

\* Raw entries of the two supported shapes, with any subset of the fields
\* present: a flat product, and an offer with variants, media and priceRange
FlatFieldNames ==
    {"id", "title", "name", "image_url", "images", "min_price", "price", "url",
     "vendor", "variants"}
FlatEntry(present) ==
    LET Text(field, value) == IF field \in present THEN value ELSE Undefined
        Price(field, value) == IF field \in present THEN value ELSE NoPrice
    IN [RawBlank EXCEPT
            !.id = Text("id", "p1"),
            !.title = Text("title", "Red Jacket"),
            !.name = Text("name", "n1"),
            !.image_url = Text("image_url", "https://img/1"),
            !.images = IF "images" \in present THEN <<"https://img/2">> ELSE <<>>,
            !.min_price = Price("min_price", Num("12.5")),
            !.price = Price("price", Str("$19.99")),
            !.url = Text("url", "u1"),
            !.vendor = Text("vendor", "StyleCo"),
            !.variants = IF "variants" \in present
                         THEN [present |-> TRUE,
                               items |-> <<[Variant1 EXCEPT !.price = Str("$1,299")]>>]
                         ELSE NoVariants]
OfferFieldNames ==
    {"id", "title", "displayName", "media", "priceRangeMin", "lookupUrl",
     "variant", "variantPrice", "variantUrl", "shopName"}
OfferEntry(present) ==
    LET Text(field, value) == IF field \in present THEN value ELSE Undefined
        Price(field, value) == IF field \in present THEN value ELSE NoPrice
    IN [RawBlank EXCEPT
            !.id = Text("id", "o1"),
            !.title = Text("title", "offer"),
            !.displayName = Text("displayName", "d1"),
            !.media = IF "media" \in present THEN <<"https://img/3">> ELSE <<>>,
            !.priceRangeMin = Price("priceRangeMin", Str("12.5")),
            !.lookupUrl = Text("lookupUrl", "https://shop/o1"),
            !.variants =
                [present |-> TRUE,
                 items |-> IF "variant" \in present
                           THEN <<[id |-> "v1",
                                   price |-> Price("variantPrice", Money("$19.99")),
                                   variantUrl |-> Text("variantUrl", "https://shop/v1"),
                                   shopName |-> Text("shopName", "StyleCo"),
                                   mediaUrl |-> Undefined]>>
                           ELSE <<>>]]
RawEntries ==
    {FlatEntry(present) : present \in SUBSET FlatFieldNames}
    \cup {OfferEntry(present) : present \in SUBSET OfferFieldNames}

NotNormalized == [kind |-> "none", product |-> normalizeProduct(RawBlank)]
NormalizeReturned(product) == [kind |-> "returned", product |-> product]
NormalizeThrew == [kind |-> "threw", product |-> normalizeProduct(RawBlank)]

NormalizerIdle ==
    /\ rawEntry = RawBlank
    /\ normalized = NotNormalized

SearchIdle ==
    /\ toolOutcome = [kind |-> "none", content |-> "none", parsed |-> NoPayload]
    /\ searched = NotSearched
    /\ NormalizerIdle

SearchInit ==
    /\ toolOutcome \in ToolOutcomes
    /\ searched = NotSearched
    /\ NormalizerIdle

NormalizerInit ==
    /\ toolOutcome = [kind |-> "none", content |-> "none", parsed |-> NoPayload]
    /\ searched = NotSearched
    /\ rawEntry \in RawEntries
    /\ normalized = NotNormalized

\* lines 419-432: one call of normalizeProduct on rawEntry
normalizeProductCall ==
    /\ normalized = NotNormalized
    /\ normalized' = IF NormalizeThrows(rawEntry) THEN NormalizeThrew
                     ELSE NormalizeReturned(normalizeProduct(rawEntry))
    /\ UNCHANGED <<toolOutcome, searched, rawEntry>>
    /\ UNCHANGED exceptSearch

NormalizerNext == normalizeProductCall

\* lines 360-402: every error is rethrown by the catch at 398-401
searchProducts ==
    /\ searched = NotSearched
    /\ searched' = IF toolOutcome.kind # "returned" THEN SearchThrew(toolOutcome.kind)
                   ELSE SearchProductsResult(toolOutcome)
    /\ UNCHANGED <<toolOutcome, rawEntry, normalized>>
    /\ UNCHANGED exceptSearch

SearchNext == searchProducts

(***************************************************************************)
(* Analytics events and boost signals (repositories.js 48-131)             *)
(***************************************************************************)
\* Event documents handed to the insert functions; absent fields are
\* undefined.
Doc(type, category, query, ts) ==
    [type |-> type, category |-> category, query |-> query,
     productId |-> Undefined, productUrl |-> Undefined,
     userId |-> Undefined, requestId |-> Undefined, ts |-> ts]
AnalyticsDocs ==
    { Doc("impression", "jackets", "q1", 2),
      Doc("click", "jackets", "q1", 2),
      Doc("click", "hats", Undefined, 2),
      Doc("impression", Undefined, "q2", 2),
      Doc("impression", "jackets", "q1", 1),
      Doc("latency", "jackets", "q1", 2) }
\* the documents used where only the success of the insert matters
WriteDocs ==
    { Doc("impression", "jackets", "q1", 2), Doc("click", "jackets", "q1", 2) }
\* the batches handed to insertAnalyticsImpressions
Batches(docs) == {<<>>} \cup {<<d>> : d \in docs} \cup {<<d, e>> : d, e \in docs}
\* the `since` timestamps handed to computeBoosts
SinceValues == {1, 2, 3}

\* `x ?? null`, lines 91-96 and 122-127
OrNull(x) == IF x = Undefined THEN Null ELSE x

\* lines 89-98 and 120-129: the row an INSERT creates for doc
EventRow(doc) ==
    [type |-> doc.type, category |-> OrNull(doc.category), query |-> OrNull(doc.query),
     product_id |-> OrNull(doc.productId), product_url |-> OrNull(doc.productUrl),
     user_id |-> OrNull(doc.userId), request_id |-> OrNull(doc.requestId),
     ts |-> doc.ts]

\* lines 57 and 74: WHERE ts >= $1 AND <column> IS NOT NULL, as the set of
\* positions of the rows selected
BoostWindow(table, column, since) ==
    {i \in DOMAIN table : table[i].ts >= since /\ table[i][column] # Null}


\* COUNT(*) without its FILTER
CountAll(table, group, type) == Cardinality(group)

\* lines 54-55 and 71-72: COUNT(*) FILTER (WHERE type = ...)
CountFilter(table, group, type) ==
    Cardinality({i \in group : table[i].type = type})

\* lines 52-58 and 69-75: one row per value of the column (GROUP BY)
BoostRows(table, column, since) ==
    LET window == BoostWindow(table, column, since)
        keys == {table[i][column] : i \in window}
    IN { [key |-> k,
          impressions |-> CountFilter(table, {i \in window : table[i][column] = k},
                                      "impression"),
          clicks |-> CountFilter(table, {i \in window : table[i][column] = k}, "click")]
         : k \in keys }

\* repositories.js 48-63
listCategoryBoostRows(table, since) == BoostRows(table, "category", since)
\* repositories.js 65-80
listQueryBoostRows(table, since) == BoostRows(table, "query", since)

\* ctr = clicks/impressions, 0 when impressions is 0, as a fraction
Ctr(clicks, impressions) ==
    IF impressions = 0 THEN [num |-> 0, den |-> 1]
    ELSE [num |-> clicks, den |-> impressions]

\* the BoostSignal of one row
BoostSignal(row) ==
    [key |-> row.key, impressions |-> row.impressions, clicks |-> row.clicks,
     ctr |-> Ctr(row.clicks, row.impressions)]

NoRecorded == [op |-> "none", outcome |-> "none"]
NoBoosts == [n |-> 0, since |-> 0, outcome |-> "none", category |-> {}, query |-> {}]

EventIdle ==
    /\ events = <<>>
    /\ recorded = NoRecorded
    /\ boosts = NoBoosts

\* repositories.js 82-110: no docs, no query
insertAnalyticsImpressions(docs, dbDown) ==
    /\ Len(events) + Len(docs) <= MaxEvents
    /\ IF docs = <<>>
       THEN /\ recorded' = [op |-> "impressions", outcome |-> "ok"]
            /\ UNCHANGED events
       ELSE IF QueryFails(dbDown)
       THEN /\ recorded' = [op |-> "impressions", outcome |-> "threw"]
            /\ UNCHANGED events
       ELSE /\ recorded' = [op |-> "impressions", outcome |-> "ok"]
            /\ events' = events \o [i \in DOMAIN docs |-> EventRow(docs[i])]
    /\ UNCHANGED boosts
    /\ UNCHANGED sessionVars
    /\ UNCHANGED exceptEvent

\* repositories.js 112-131
insertAnalyticsClick(doc, dbDown) ==
    /\ Len(events) < MaxEvents
    /\ IF QueryFails(dbDown)
       THEN /\ recorded' = [op |-> "click", outcome |-> "threw"]
            /\ UNCHANGED events
       ELSE /\ recorded' = [op |-> "click", outcome |-> "ok"]
            /\ events' = Append(events, EventRow(doc))
    /\ UNCHANGED boosts
    /\ UNCHANGED sessionVars
    /\ UNCHANGED exceptEvent

\* computeBoosts(since): the two boost queries, each row completed with its
\* ctr
computeBoosts(since, dbDown) ==
    /\ boosts.n < MaxBoostCalls
    /\ boosts' =
         IF QueryFails(dbDown)
         THEN [n |-> boosts.n + 1, since |-> since, outcome |-> "threw",
               category |-> {}, query |-> {}]
         ELSE [n |-> boosts.n + 1, since |-> since, outcome |-> "returned",
               category |-> {BoostSignal(r) : r \in listCategoryBoostRows(events, since)},
               query |-> {BoostSignal(r) : r \in listQueryBoostRows(events, since)}]
    /\ UNCHANGED <<events, recorded>>
    /\ UNCHANGED sessionVars
    /\ UNCHANGED exceptEvent

\* the durable writes: sessions and analytics events
WriteNext ==
    \/ connectPostgres
    \/ connectPostgresDone
    \/ \E session \in SessionInputs : \E dbDown \in BOOLEAN : createSession(session, dbDown)
    \/ \E docs \in Batches(WriteDocs) : \E dbDown \in BOOLEAN :
           insertAnalyticsImpressions(docs, dbDown)
    \/ \E doc \in WriteDocs : \E dbDown \in BOOLEAN : insertAnalyticsClick(doc, dbDown)

\* analytics events and the boost signals computed from them
BoostNext ==
    \/ connectPostgres
    \/ connectPostgresDone
    \/ \E docs \in Batches(AnalyticsDocs) : \E dbDown \in BOOLEAN :
           insertAnalyticsImpressions(docs, dbDown)
    \/ \E doc \in AnalyticsDocs : \E dbDown \in BOOLEAN : insertAnalyticsClick(doc, dbDown)
    \/ \E since \in SinceValues : \E dbDown \in BOOLEAN : computeBoosts(since, dbDown)

(***************************************************************************)
(* Analytics dispatch: track (shopify.js 51-107)                           *)
(***************************************************************************)
\* shopify.js 53, 54
MAX_RETRIES == 3
BASE_DELAY_MS == 200

\* event names handed to track; "" is a missing name
EventNames == {"", "shop_frame"}

\* shopify.js 58-66: whether ensureInit answers true
EnsureInitOk(e, initialized) ==
    e.useAmplitude /\ (initialized \/ e.apiKey)


\* a loop that allows one attempt more
LoopContinuesOnceMore(a) == a <= MAX_RETRIES + 1

\* shopify.js 93: attempt <= MAX_RETRIES
LoopContinues(a) == a <= MAX_RETRIES

\* shopify.js 102: attempt < MAX_RETRIES
SleepsAfter(a) == a < MAX_RETRIES

\* shopify.js 103: BASE_DELAY_MS * (2 ** attempt)
Delay(a) == BASE_DELAY_MS * (2 ^ a)

TrackIdle ==
    /\ isInitialized = FALSE
    /\ trackpc = "idle"
    /\ attempt = 0
    /\ sends = 0
    /\ slept = <<>>
    /\ attemptOutcome = "none"
    /\ trackret = "none"
    /\ trackCalls = 0
    /\ delivered = 0

TrackInit ==
    /\ ampEnv \in [useAmplitude : BOOLEAN, apiKey : BOOLEAN]
    /\ TrackIdle

TrackQuiet ==
    /\ ampEnv = [useAmplitude |-> FALSE, apiKey |-> FALSE]
    /\ TrackIdle

\* shopify.js 72-95: from entry up to the await of the first
\* amplitude.track; returns at once without an event name or without an
\* initialised SDK (ensureInit is not reached without an event name)
track(eventName) ==
    /\ trackpc \in {"idle", "done"}
    /\ trackCalls < MaxTrackCalls
    /\ trackCalls' = trackCalls + 1
    /\ attempt' = 0
    /\ slept' = <<>>
    /\ attemptOutcome' = "none"
    /\ IF eventName = ""
       THEN /\ trackpc' = "done" /\ trackret' = "returned" /\ sends' = 0
            /\ UNCHANGED isInitialized
       ELSE IF ~EnsureInitOk(ampEnv, isInitialized)
       THEN /\ trackpc' = "done" /\ trackret' = "returned" /\ sends' = 0
            /\ UNCHANGED isInitialized
       ELSE /\ isInitialized' = TRUE
            /\ trackpc' = "sending" /\ trackret' = "none" /\ sends' = 1
    /\ UNCHANGED <<ampEnv, delivered>>
    /\ UNCHANGED exceptTrack

\* shopify.js 98-106: the catch block has swallowed the error of attempt
\* `attempt`: sleep before the next attempt, or go round the loop at once
AfterFailure ==
    /\ attemptOutcome' = "failed"
    /\ IF SleepsAfter(attempt)
       THEN /\ slept' = Append(slept, Delay(attempt))
            /\ trackpc' = "sleeping"
            /\ UNCHANGED <<attempt, sends, trackret>>
       ELSE /\ attempt' = attempt + 1
            /\ UNCHANGED slept
            /\ IF LoopContinues(attempt + 1)
               THEN /\ trackpc' = "sending" /\ sends' = sends + 1
                    /\ UNCHANGED trackret
               ELSE /\ trackpc' = "done" /\ trackret' = "returned"
                    /\ UNCHANGED sends

\* shopify.js 95: the awaited amplitude.track settles
trackSendSettles(ok) ==
    /\ trackpc = "sending"
    /\ IF ok
       THEN /\ trackpc' = "flushing"
            /\ delivered' = delivered + 1
            /\ UNCHANGED <<attempt, sends, slept, attemptOutcome, trackret>>
       ELSE /\ AfterFailure
            /\ UNCHANGED delivered
    /\ UNCHANGED <<ampEnv, isInitialized, trackCalls>>
    /\ UNCHANGED exceptTrack

\* shopify.js 96-97: the awaited amplitude.flush settles
trackFlushSettles(ok) ==
    /\ trackpc = "flushing"
    /\ IF ok
       THEN /\ trackpc' = "done" /\ trackret' = "returned"
            /\ attemptOutcome' = "ok"
            /\ UNCHANGED <<attempt, sends, slept>>
       ELSE AfterFailure
    /\ UNCHANGED <<ampEnv, isInitialized, trackCalls, delivered>>
    /\ UNCHANGED exceptTrack

\* shopify.js 104, 93-95: the sleep ends, the loop goes round
trackWakes ==
    /\ trackpc = "sleeping"
    /\ attempt' = attempt + 1
    /\ IF LoopContinues(attempt + 1)
       THEN /\ trackpc' = "sending" /\ sends' = sends + 1
            /\ UNCHANGED trackret
       ELSE /\ trackpc' = "done" /\ trackret' = "returned"
            /\ UNCHANGED sends
    /\ UNCHANGED <<ampEnv, isInitialized, slept, attemptOutcome, trackCalls, delivered>>
    /\ UNCHANGED exceptTrack

TrackSends == \E ok \in BOOLEAN : trackSendSettles(ok)
TrackFlushes == \E ok \in BOOLEAN : trackFlushSettles(ok)

TrackNext ==
    \/ \E eventName \in EventNames : track(eventName)
    \/ TrackSends
    \/ TrackFlushes
    \/ trackWakes

(***************************************************************************)
(* Specifications                                                          *)
(***************************************************************************)
\* the token cache under concurrent callers
Init == TokenInit /\ FanoutQuiet /\ SessionQuiet /\ PipelineQuiet /\ TrackQuiet /\ McpIdle /\ EventIdle /\ SearchIdle /\ ConnectIdle
Spec == Init /\ [][TokenNext]_vars

\* the token cache while the process environment changes
ConfigNext ==
    \/ Tick
    \/ \E e \in [clientId : BOOLEAN, clientSecret : BOOLEAN] : setEnv(e)
    \/ \E c \in Callers : getAccessToken(c)
    \/ \E c \in Callers : \E response \in McpTokenResponses(treq[c]) :
           getAccessTokenFetched(c, response)
    \/ \E c \in Callers : getAccessTokenResume(c)
ConfigSpecInit == TokenInit /\ FanoutQuiet /\ SessionQuiet /\ PipelineQuiet /\ TrackQuiet /\ McpIdle /\ EventIdle /\ SearchIdle /\ ConnectIdle
ConfigSpec == ConfigSpecInit /\ [][ConfigNext]_vars

\* one run of analyzeImageWithFunctionCalling
FanoutSpecInit == TokenQuiet /\ FanoutInit /\ SessionQuiet /\ PipelineQuiet /\ TrackQuiet /\ McpIdle /\ EventIdle /\ SearchIdle /\ ConnectIdle
FanoutSpec == FanoutSpecInit /\ [][FanoutNext]_vars

\* the same, with the event loop running the continuation of Promise.all
\* once it is ready
FanoutLiveSpec == FanoutSpecInit /\ [][FanoutNext]_vars /\ WF_vars(analyzeImageGathered)

\* the session store
SessionSpecInit == TokenQuiet /\ FanoutQuiet /\ SessionInit /\ PipelineQuiet /\ TrackQuiet /\ McpIdle /\ EventIdle /\ SearchIdle /\ ConnectIdle
SessionSpec == SessionSpecInit /\ [][SessionNext]_vars

\* pipeline runs, one at a time, over the session store
PipelineSpecInit == TokenQuiet /\ FanoutQuiet /\ SessionInit /\ PipelineQuiet /\ TrackQuiet /\ McpIdle /\ EventIdle /\ SearchIdle /\ ConnectIdle
PipelineSpec == PipelineSpecInit /\ [][PipelineNext]_vars

\* the writes to the durable store
WriteSpecInit ==
    /\ TokenQuiet /\ FanoutQuiet /\ SessionInit /\ PipelineQuiet /\ TrackQuiet
    /\ McpIdle /\ EventIdle /\ SearchIdle /\ ConnectIdle
WriteSpec == WriteSpecInit /\ [][WriteNext]_vars

\* analytics events and computeBoosts
BoostSpecInit ==
    /\ TokenQuiet /\ FanoutQuiet /\ SessionInit /\ PipelineQuiet /\ TrackQuiet
    /\ McpIdle /\ EventIdle /\ SearchIdle /\ ConnectIdle
BoostSpec == BoostSpecInit /\ [][BoostNext]_vars

\* one call of searchProducts, for every outcome of its executeMcpTool
SearchSpecInit ==
    /\ TokenQuiet /\ FanoutQuiet /\ SessionQuiet /\ PipelineQuiet /\ TrackQuiet
    /\ McpIdle /\ EventIdle /\ SearchInit /\ ConnectIdle
SearchSpec == SearchSpecInit /\ [][SearchNext]_vars

\* one call of normalizeProduct, for every raw entry
NormalizerSpecInit ==
    /\ TokenQuiet /\ FanoutQuiet /\ SessionQuiet /\ PipelineQuiet /\ TrackQuiet
    /\ McpIdle /\ EventIdle /\ NormalizerInit /\ ConnectIdle
NormalizerSpec == NormalizerSpecInit /\ [][NormalizerNext]_vars

\* callers of the postgres module
ConnectSpecInit ==
    /\ TokenQuiet /\ FanoutQuiet /\ SessionInit /\ PipelineQuiet /\ TrackQuiet
    /\ McpIdle /\ EventIdle /\ SearchIdle /\ ConnectInit
ConnectSpec == ConnectSpecInit /\ [][ConnectNext]_vars

\* calls of executeMcpTool
McpSpecInit ==
    TokenInit /\ FanoutQuiet /\ SessionQuiet /\ PipelineQuiet /\ TrackQuiet /\ McpIdle /\ EventIdle /\ SearchIdle /\ ConnectIdle
McpSpec == McpSpecInit /\ [][McpNext]_vars

\* calls of track; every SDK promise settles and every timer fires
TrackSpecInit == TokenQuiet /\ FanoutQuiet /\ SessionQuiet /\ PipelineQuiet /\ TrackInit /\ McpIdle /\ EventIdle /\ SearchIdle /\ ConnectIdle
TrackSpec ==
    /\ TrackSpecInit /\ [][TrackNext]_vars
    /\ WF_vars(TrackSends) /\ WF_vars(TrackFlushes) /\ WF_vars(trackWakes)

(***************************************************************************)
(* Properties of the token cache (specification Spec)                      *)
(***************************************************************************)
\* callers whose credential exchange has been sent and not yet consumed
InFlight == {c \in Callers : tpc[c] \in {"fetching", "parsing"}}
\* some caller's exchange has run to its end
ExchangeCompleted == \E c \in Callers : tpc[c] = "done" /\ treq[c] > 0

\* C1: refreshes are coalesced: at every moment at most one credential
\* exchange is in flight, and the calls started before any exchange has
\* completed issue exactly one exchange request in total.
C1_RefreshCoalesced ==
    /\ Cardinality(InFlight) <= 1
    /\ ~ExchangeCompleted => exchangeCount <= 1

\* caller c returns from getAccessToken in this step
Returns(c) == tpc[c] # "done" /\ tpc'[c] = "done"
IsToken(tok) == tok \notin {Null, Undefined}

\* C2: every token that getAccessToken returns, cached or just exchanged,
\* expires more than 60 seconds after the moment it is returned.
C2_ReturnedTokenFresh ==
    [][\A c \in Callers :
         (Returns(c) /\ tret'[c].kind \in {"cached", "fresh"} /\ IsToken(tret'[c].token))
            => tokenCache'.expiresAt > clock' + 60 * 1000]_vars

\* the slot holds a token that expires more than 60 s from now
SlotFresh ==
    IsToken(tokenCache.accessToken) /\ tokenCache.expiresAt > clock + 60 * 1000
\* caller c enters getAccessToken in this step
Enters(c) == tpc[c] = "idle" /\ tpc'[c] # "idle"
\* a 2xx response with a JSON body that carries an access_token
ExchangeSucceeded(r) == r.ok /\ r.json /\ IsToken(r.data.access_token)
\* the lifetime the endpoint reported, one hour when it reported none
Lifetime(r) == IF r.data.expires_in = 0 THEN 3600 ELSE r.data.expires_in
ReturnsCached(c) ==
    /\ tpc'[c] = "done"
    /\ tret'[c] = [kind |-> "cached", token |-> tokenCache.accessToken]
    /\ exchangeCount' = exchangeCount
    /\ tokenCache' = tokenCache
IssuesExchange(c) ==
    /\ tpc'[c] = "fetching"
    /\ exchangeCount' = exchangeCount + 1
SlotReplaced(c) ==
    /\ tokenCache' = [accessToken |-> tresp[c].data.access_token,
                      expiresAt |-> tnow[c] + Lifetime(tresp[c]) * 1000]
    /\ tret'[c] = [kind |-> "fresh", token |-> tresp[c].data.access_token]

\* C3 as stated: with a fresh slot getAccessToken returns the cached token,
\* issues no exchange and leaves the slot alone; in every other case it
\* issues an exchange, and on success replaces the slot and returns the new
\* token.
C3_CachedOrExchange ==
    [][\A c \in Callers :
         /\ Enters(c) => IF SlotFresh THEN ReturnsCached(c) ELSE IssuesExchange(c)
         /\ (Returns(c) /\ tpc[c] = "parsing" /\ ExchangeSucceeded(tresp[c]))
               => SlotReplaced(c)]_vars

FailsWithoutExchange(c) ==
    /\ tpc'[c] = "done"
    /\ tret'[c].kind = "error"
    /\ exchangeCount' = exchangeCount
    /\ tokenCache' = tokenCache

\* C3 (amended): with a fresh slot getAccessToken returns the cached token,
\* issues no exchange and leaves the slot alone; in every other case it
\* issues an exchange when client id and client secret are both configured
\* (and fails without issuing one when either is absent), and on success
\* replaces the slot and returns the new token.
C3_CachedOrExchangeWithCredentials ==
    [][\A c \in Callers :
         /\ Enters(c) =>
               IF SlotFresh THEN ReturnsCached(c)
               ELSE IF env.clientId /\ env.clientSecret THEN IssuesExchange(c)
               ELSE FailsWithoutExchange(c)
         /\ (Returns(c) /\ tpc[c] = "parsing" /\ ExchangeSucceeded(tresp[c]))
               => SlotReplaced(c)]_vars

\* one caller found the slot empty and exchanged, and another caller was
\* then served that token from the cache
C3_Witness ==
    \E c1, c2 \in Callers :
        /\ tret[c1].kind = "cached" /\ tret[c2].kind = "fresh"
        /\ tret[c1].token = tret[c2].token /\ IsToken(tret[c1].token)

\* C4: when the exchange fails (non-2xx, or a 2xx whose body is malformed
\* or has no access_token) getAccessToken fails with an error, returns no
\* token and leaves the slot as it was.
C4_FailedExchangeThrows ==
    [][\A c \in Callers :
         (Returns(c) /\ tpc[c] = "parsing" /\ ~ExchangeSucceeded(tresp[c]))
            => tret'[c].kind = "error" /\ tokenCache' = tokenCache]_vars

\* a refresh is needed: the slot holds no token that outlives the buffer
RefreshNeeded == ~SlotFresh
\* the client id or the client secret is absent
CredentialAbsent == ~env.clientId \/ ~env.clientSecret

\* C20: a call of getAccessToken that needs a refresh while the client id
\* or the client secret is absent ends at once with an error: no
\* credential exchange is issued and the token slot keeps its value.
C20_MissingCredentialsFail ==
    [][\A c \in Callers :
         (Enters(c) /\ RefreshNeeded /\ CredentialAbsent)
            => /\ tret'[c] = Threw
               /\ tpc'[c] = "done"
               /\ treq'[c] = 0
               /\ exchangeCount' = exchangeCount
               /\ tokenCache' = tokenCache]_vars

\* a call has failed without an exchange of its own, a credential is absent
\* and the slot holds a token that does not outlive the buffer
C20_Witness ==
    \E c \in Callers :
        /\ tpc[c] = "done" /\ tret[c] = Threw /\ treq[c] = 0
        /\ CredentialAbsent
        /\ IsToken(tokenCache.accessToken) /\ RefreshNeeded

\* the tokens that clearTokenCache has discarded
PurgedTokens == {p.token : p \in purged}
\* clearTokenCache runs in this step
Clears == purged' # purged

\* C21: clearTokenCache leaves the slot empty whatever it held and whatever
\* refresh is in progress, and leaves that refresh alone; no call of
\* getAccessToken returns a token that a clear has discarded; and a call
\* that finds the slot still empty after a clear issues a credential
\* exchange when the credentials are configured.
C21_ClearResets ==
    [][/\ Clears => /\ tokenCache' = EmptyTokenCache
                    /\ <<tpc, tnow, treq, tresp, tret>>' = <<tpc, tnow, treq, tresp, tret>>
       /\ \A c \in Callers :
            /\ (Returns(c) /\ tret'[c].kind \in {"cached", "fresh"})
                  => tret'[c].token \notin PurgedTokens
            /\ (Enters(c) /\ purged # {} /\ tokenCache = EmptyTokenCache
                    /\ ~CredentialAbsent)
                  => IssuesExchange(c)]_vars

\* a token was discarded while another caller's refresh was in progress or
\* still to come, and a call whose exchange was issued after the clear has
\* returned its own new token
C21_Witness ==
    \E p \in purged : \E c \in Callers :
        /\ tpc[c] = "done" /\ tret[c].kind = "fresh" /\ IsToken(tret[c].token)
        /\ treq[c] > p.count
        /\ tret[c].token # p.token

(***************************************************************************)
(* Properties of the search fan-out (FanoutSpec, FanoutLiveSpec)           *)
(***************************************************************************)
\* C5: at most 8 searches per dispatch: exactly the first min(n, 8) calls,
\* in input order, each cause one catalog search, and no call at position 9
\* or later reaches the catalog.
C5_AtMostEightSearches ==
    LET n == Len(functionCalls)
        k == IF n < 8 THEN n ELSE 8
    IN IF dpc = "idle" THEN catalogCalls = <<>>
       ELSE /\ Len(catalogCalls) = k
            /\ \A i \in 1..k : catalogCalls[i].query = functionCalls[i].args.query

\* a dispatch of more than 8 calls has returned
C5_Witness ==
    dpc = "returned" /\ Len(functionCalls) > 8 /\ Len(catalogCalls) = 8

\* what the catalog answers to dispatched call i
Answer(i) == searchShopifyCatalog(catalog, catalogCalls[i].query, catalogCalls[i].limit)
\* the per-request results with every failed request replaced by no products
IsolatedResults ==
    [i \in DOMAIN callState |->
        IF callState[i] = "failed"
        THEN [query |-> catalogCalls[i].query, products |-> <<>>]
        ELSE Answer(i)]

\* C6: fan-out isolation: whatever subset of the catalog calls fails,
\* dispatch completes with a result; a failed request has a zero-count entry
\* for its query and no products, and every other request keeps the
\* products and the count the catalog answered.
C6_FanoutIsolation ==
    dpc = "returned" =>
        /\ output.kind = "returned"
        /\ Len(output.searches) = Len(callState)
        /\ \A i \in DOMAIN callState :
             /\ searchResults[i].value = IsolatedResults[i]
             /\ output.searches[i] =
                  [query |-> catalogCalls[i].query,
                   count |-> IF callState[i] = "failed" THEN 0 ELSE Len(Answer(i).products)]
        /\ output.products = AggregateResults(IsolatedResults, 1, NothingSeen)

\* a dispatch returned products although one of its searches failed
C6_Witness ==
    /\ dpc = "returned"
    /\ output.products # <<>>
    /\ \E i, j \in DOMAIN callState :
         /\ callState[i] = "failed" /\ Answer(i).products # <<>>
         /\ callState[j] = "ok" /\ i < j

\* the products of all results, in request order
RECURSIVE MergedFrom(_, _)
MergedFrom(results, i) ==
    IF i > Len(results) THEN <<>>
    ELSE results[i].value.products \o MergedFrom(results, i + 1)
Merged(results) == MergedFrom(results, 1)
HasUrl(p) == p.url # Undefined
\* a product without the searchQuery annotation
Bare(products) == [i \in DOMAIN products |-> [id |-> products[i].id, url |-> products[i].url]]
\* the elements of seq whose url no earlier element has
RECURSIVE FirstByUrl(_, _)
FirstByUrl(seq, j) ==
    IF j > Len(seq) THEN <<>>
    ELSE IF \E i \in 1..(j - 1) : seq[i].url = seq[j].url
         THEN FirstByUrl(seq, j + 1)
         ELSE <<seq[j]>> \o FirstByUrl(seq, j + 1)

\* C7: dedup: among the products that have a productUrl, the returned ones
\* are the per-request lists concatenated in request order with every
\* product removed whose productUrl an earlier product has; no two share a
\* productUrl, the first occurrence is kept, the order is preserved.
C7_DedupFirstWins ==
    dpc = "returned" =>
        LET out == SelectSeq(Bare(output.products), HasUrl) IN
        /\ out = FirstByUrl(SelectSeq(Merged(searchResults), HasUrl), 1)
        /\ \A i, j \in DOMAIN out : out[i].url = out[j].url => i = j

\* the batch [A(u1), B(u1), C(u2)] was returned as [A, C]
C7_Witness ==
    /\ dpc = "returned"
    /\ Bare(Merged(searchResults)) = <<ProdA, ProdB, ProdC>>
    /\ Bare(output.products) = <<ProdA, ProdC>>

NoUrl(p) == p.url = Undefined

AllSearchesSettled == \A i \in DOMAIN callState : callState[i] # "pending"

\* C9: scatter-gather barrier: no result is returned while a dispatched
\* search is pending, and once all of them have settled dispatch returns.
C9_Barrier ==
    /\ [](output.kind # "none" => dpc = "returned" /\ AllSearchesSettled)
    /\ [](Len(callState) = Len(catalogCalls))
    /\ (dpc = "dispatched" /\ AllSearchesSettled) ~> (dpc = "returned")

\* a dispatch of several searches returned after some succeeded and some
\* failed
C9_Witness ==
    /\ dpc = "returned" /\ output.kind = "returned"
    /\ \E i, j \in DOMAIN callState : callState[i] = "ok" /\ callState[j] = "failed"

\* the requests whose result list holds a product with url u
RequestsWith(u) ==
    {i \in DOMAIN searchResults :
        \E j \in DOMAIN searchResults[i].value.products :
            searchResults[i].value.products[j].url = u}
\* the earliest of them
EarliestWith(u) == CHOOSE i \in RequestsWith(u) : \A o \in RequestsWith(u) : i <= o
\* the first product with url u in the result list of request i
FirstIn(i, u) ==
    LET products == searchResults[i].value.products
        j == CHOOSE j \in DOMAIN products :
                 /\ products[j].url = u
                 /\ \A o \in DOMAIN products : products[o].url = u => j <= o
    IN products[j]

\* C15: every returned product carries as searchQuery the query of the
\* request that produced the kept occurrence: the earliest request, in
\* request order, whose result list holds a product with that productUrl;
\* the product kept is the first such product of that list.
C15_SearchQueryOfOrigin ==
    dpc = "returned" =>
        \A k \in DOMAIN output.products :
            LET p == output.products[k] IN
            /\ RequestsWith(p.url) # {}
            /\ p.searchQuery = catalogCalls[EarliestWith(p.url)].query
            /\ p.searchQuery = functionCalls[EarliestWith(p.url)].args.query
            /\ p.id = FirstIn(EarliestWith(p.url), p.url).id

\* a returned product's productUrl was also in the result of a later
\* request made for another query
C15_Witness ==
    /\ dpc = "returned"
    /\ \E k \in DOMAIN output.products : \E i, j \in DOMAIN searchResults :
         /\ i < j
         /\ {i, j} \subseteq RequestsWith(output.products[k].url)
         /\ output.products[k].searchQuery = catalogCalls[i].query
         /\ catalogCalls[j].query # catalogCalls[i].query

\* the sum of the counts of the first i entries
RECURSIVE SumOfCounts(_, _)
SumOfCounts(searches, i) ==
    IF i = 0 THEN 0 ELSE searches[i].count + SumOfCounts(searches, i - 1)
\* the number of requests accepted: min(n, 8)
AcceptedCount == IF Len(functionCalls) < 8 THEN Len(functionCalls) ELSE 8

\* C24: the counts returned with the products have one entry per accepted
\* request, min(n, 8) in all, in the order of the requests whatever the
\* order they completed in; an entry's count is the number of products its
\* request returned before deduplication, 0 for a failed request; so the
\* deduplicated products are never more than the sum of the counts.
C24_PerRequestCounts ==
    output.kind = "returned" =>
        /\ Len(output.searches) = AcceptedCount
        /\ \A i \in 1..AcceptedCount :
              /\ output.searches[i].query = functionCalls[i].args.query
              /\ output.searches[i].count = Len(searchResults[i].value.products)
              /\ callState[i] = "failed" => output.searches[i].count = 0
        /\ Len(output.products) <= SumOfCounts(output.searches, Len(output.searches))

\* a run has returned after a later request completed before an earlier
\* one, one request failed, and deduplication dropped a product
C24_Witness ==
    /\ output.kind = "returned" /\ overtaken
    /\ \E i \in DOMAIN callState : callState[i] = "failed"
    /\ \E i \in DOMAIN output.searches : output.searches[i].count > 0
    /\ Len(output.products) < SumOfCounts(output.searches, Len(output.searches))

(***************************************************************************)
(* Properties of the session lookup (SessionSpec)                          *)
(***************************************************************************)
\* the stored sessions with frame hash h created within maxAge seconds of now
FreshSessions(h, maxAge) ==
    {r \in sessions : r.frame_hash = h /\ dbNow - r.created_at <= maxAge}
SameSession(r, session) ==
    /\ session.sessionId = r.session_id /\ session.frameHash = r.frame_hash
    /\ session.createdAt = r.created_at /\ session.videoId = r.video_id
    /\ session.timestampSec = r.timestamp_sec
    /\ session.items = r.items /\ session.results = r.results

\* C10: a lookup that reaches the store returns absent exactly when the
\* store holds no session with the query's frame hash created within
\* maxAgeSeconds of now, and otherwise returns one of those sessions with
\* the greatest createdAt.
C10_LookupMostRecentFresh ==
    [][(lookup'.n = lookup.n + 1 /\ lookup'.outcome = "returned") =>
         LET fresh == FreshSessions(lookup'.frameHash, lookup'.maxAge) IN
         /\ lookup'.result = <<>> <=> fresh = {}
         /\ lookup'.result # <<>> =>
              \E r \in fresh :
                  /\ SameSession(r, lookup'.result[1])
                  /\ \A o \in fresh : r.created_at >= o.created_at]_vars

\* a lookup with maxAgeSeconds = 300 made 299 s after the newest of two
\* sessions of that frame hash was created has returned the newest
C10_Witness ==
    /\ lookup.outcome = "returned" /\ lookup.maxAge = 300
    /\ lookup.result # <<>>
    /\ dbNow - lookup.result[1].createdAt = 299
    /\ \E r \in sessions :
         /\ r.frame_hash = lookup.frameHash
         /\ r.created_at < lookup.result[1].createdAt

\* a store ends in this step (a repeated identical failing store changes
\* nothing at all)
Stores == created' # created \/ sessions' # sessions
\* a lookup ends in this step
LooksUp == lookup'.n = lookup.n + 1

\* C11: the session store is append-only: every stored Session stays in
\* the store with all its fields unchanged; a store adds at most the one
\* Session it was given and fails, changing nothing, when the sessionId is
\* already used; a lookup never modifies the store; no two stored Sessions
\* share a sessionId.
C11_AppendOnly ==
    [][/\ \A r \in sessions : r \in sessions'
       /\ LooksUp => sessions' = sessions
       /\ Stores =>
            /\ (\E r \in sessions : r.session_id = created'.sessionId)
                  => created'.outcome = "threw" /\ sessions' = sessions
            /\ created'.outcome = "ok" =>
                  \E r \in sessions' :
                      /\ sessions' = sessions \cup {r} /\ r \notin sessions
                      /\ r.session_id = created'.sessionId
            /\ created'.outcome = "threw" => sessions' = sessions
       /\ \A r, o \in sessions' : r.session_id = o.session_id => r = o]_vars

\* a store with the sessionId of a Session stored earlier has failed, and
\* a lookup has then returned that earlier Session
C11_Witness ==
    /\ created.outcome = "threw"
    /\ \E r \in sessions : r.session_id = created.sessionId /\ r.created_at < dbNow
    /\ lookup.outcome = "returned" /\ lookup.result # <<>>
    /\ lookup.result[1].sessionId = created.sessionId

\* C16: a cache-read failure is a cache miss: a lookup never ends with an
\* error; when the store is unavailable or the query fails it yields
\* absent.
C16_ReadFailureIsMiss ==
    /\ lookup.outcome \in {"none", "returned"}
    /\ (lookup.outcome # "none" /\ (pool = "unset" \/ ~schema)) => lookup.result = <<>>

(***************************************************************************)
(* Properties of the request pipeline (PipelineSpec)                       *)
(***************************************************************************)
\* the stored Sessions of frame hash h inside the freshness window
CachedFor(h) ==
    {r \in sessions : r.frame_hash = h /\ dbNow - r.created_at <= FreshnessWindowSec}
\* a pipeline run starts in this step, with its cache check
RunStarts == pipeline.pc \in {"idle", "done"} /\ lookup'.n = lookup.n + 1
\* a run that went through the vision identifier and the catalog ends with
\* its write to the cache
RunStores == pipeline.pc = "store" /\ pipeline'.pc = "done"

\* C12: end-to-end cache hit: once a run for frame hash h has persisted a
\* Session, a later run for h inside the freshness window whose cache read
\* reaches the store answers with the cached Session (the most recent one
\* of h) and invokes neither the vision identifier nor the catalog; a run
\* for an h without a stored Session goes on to the vision identifier, and
\* when it has run the vision identifier and the catalog once each its
\* write persists exactly one new Session, with frameHash = h; no other
\* step of a run changes the store.
C12_EndToEndCacheHit ==
    [][/\ (RunStarts /\ lookup'.outcome = "returned"
              /\ CachedFor(pipeline'.frameHash) # {}) =>
            /\ pipeline'.pc = "done" /\ pipeline'.response.kind = "cached"
            /\ \E r \in CachedFor(pipeline'.frameHash) :
                  /\ SameSession(r, pipeline'.response.session[1])
                  /\ \A o \in CachedFor(pipeline'.frameHash) : r.created_at >= o.created_at
            /\ pipeline'.visionCalls = 0 /\ pipeline'.catalogRuns = 0
       /\ (RunStarts /\ ~\E r \in sessions : r.frame_hash = pipeline'.frameHash) =>
            pipeline'.pc = "vision"
       /\ RunStores =>
            /\ pipeline'.visionCalls = 1 /\ pipeline'.catalogRuns = 1
            /\ pipeline'.response.kind = "computed"
            /\ created'.outcome = "ok" =>
                  \E r \in sessions' :
                      /\ r \notin sessions /\ sessions' = sessions \cup {r}
                      /\ r.frame_hash = pipeline.frameHash
            /\ created'.outcome # "ok" => sessions' = sessions
       /\ ~RunStores => sessions' = sessions]_vars

\* a first run for a frame hash persisted a Session, and a second run for
\* the same hash 299 s later was answered with that Session
C12_Witness ==
    /\ pipeline.pc = "done" /\ pipeline.response.kind = "cached"
    /\ pipeline.visionCalls = 0 /\ pipeline.catalogRuns = 0
    /\ lookup.n = 2
    /\ created.outcome = "ok"
    /\ pipeline.response.session[1].sessionId = created.sessionId
    /\ pipeline.response.session[1].frameHash = pipeline.frameHash
    /\ dbNow - pipeline.response.session[1].createdAt = 299

(***************************************************************************)
(* Properties of the analytics dispatch (TrackSpec)                        *)
(***************************************************************************)
\* the delays between the attempts of one call
Backoff == <<200, 400, 800>>

\* C13: track retries within bounds and gives up silently: a call makes at
\* most 4 send attempts, makes none after an attempt has succeeded, sleeps
\* 200, 400, 800 ms and only between two consecutive attempts, never
\* raises, and always ends.
C13_BoundedRetry ==
    /\ [](sends <= 4)
    /\ [](trackret # "threw")
    /\ [](attemptOutcome = "ok" => trackpc = "done")
    /\ [](/\ Len(slept) <= 3
          /\ slept = SubSeq(Backoff, 1, Len(slept))
          /\ Len(slept) = IF trackpc = "sleeping" THEN sends
                          ELSE IF sends = 0 THEN 0 ELSE sends - 1)
    /\ [][sends' > sends => attemptOutcome # "ok" \/ trackCalls' # trackCalls]_vars
    /\ (trackpc \in {"sending", "flushing", "sleeping"}) ~> (trackpc = "done")

\* a call gave up after four failed attempts and three sleeps, and returned
C13_Witness ==
    /\ trackpc = "done" /\ trackret = "returned"
    /\ sends = 4 /\ attemptOutcome = "failed"
    /\ slept = <<200, 400, 800>>

(***************************************************************************)
(* Properties of the catalog protocol client (McpSpec)                     *)
(***************************************************************************)
\* the response was a 2xx with a JSON envelope
GotEnvelope(r) == ~r.network /\ r.ok /\ r.json

\* C14: a call of executeMcpTool sends at most one catalog request; when
\* it has ended it has sent exactly one, unless getAccessToken raised, in
\* which case it has sent none and fails; on a 2xx envelope without an
\* error field it returns the envelope's result, on a network failure or a
\* non-2xx status it fails with a transport error, on an envelope with an
\* error field it fails with an application error.
C14_SingleRequest ==
    \A c \in Callers :
        /\ mcpRequests[c] <= 1
        /\ mpc[c] = "done" =>
             IF tret[c].kind = "error"
             THEN mcpRequests[c] = 0 /\ mret[c] = [kind |-> "token", value |-> Undefined]
             ELSE /\ mcpRequests[c] = 1
                  /\ (GotEnvelope(mresp[c]) /\ mresp[c].envelope.error = Undefined)
                        => mret[c] = [kind |-> "returned",
                                      value |-> mresp[c].envelope.result]
                  /\ (mresp[c].network \/ ~mresp[c].ok) => mret[c].kind = "transport"
                  /\ (GotEnvelope(mresp[c]) /\ mresp[c].envelope.error # Undefined)
                        => mret[c].kind = "application"

\* one call returned a result and another failed on a non-2xx status, each
\* after its single request
C14_Witness ==
    \E c1, c2 \in Callers :
        /\ mpc[c1] = "done" /\ mret[c1] = [kind |-> "returned", value |-> "r1"]
        /\ mcpRequests[c1] = 1
        /\ mpc[c2] = "done" /\ mret[c2].kind = "transport" /\ mcpRequests[c2] = 1
        /\ ~mresp[c2].network /\ ~mresp[c2].ok

(***************************************************************************)
(* Properties of the durable writes (WriteSpec)                            *)
(***************************************************************************)
\* C17: failures of analytics recording and of the session cache write
\* never surface: recordImpressions, recordClick and store end without
\* raising, also when the store operation fails.
C17_WriteFailuresSwallowed ==
    /\ recorded.outcome # "threw"
    /\ created.outcome # "threw"

(***************************************************************************)
(* Properties of the boost signals (BoostSpec)                             *)
(***************************************************************************)
\* the non-null values of a column among the events with ts >= since
ObservedKeys(column, since) ==
    {events[i][column] : i \in {j \in DOMAIN events : events[j].ts >= since}} \ {Null}
\* the number of events of one type for a key in the window
EventCount(column, key, type, since) ==
    Len(SelectSeq(events,
                  LAMBDA e : e[column] = key /\ e.type = type /\ e.ts >= since))
SignalsRight(signals, column, since) ==
    /\ {sig.key : sig \in signals} = ObservedKeys(column, since)
    /\ \A sig, other \in signals : sig.key = other.key => sig = other
    /\ \A sig \in signals :
         /\ sig.impressions = EventCount(column, sig.key, "impression", since)
         /\ sig.clicks = EventCount(column, sig.key, "click", since)
         /\ sig.ctr.den > 0
         /\ IF sig.impressions = 0 THEN sig.ctr.num = 0
            ELSE sig.ctr.num * sig.impressions = sig.clicks * sig.ctr.den

\* C18: computeBoosts(since) yields, for the categories and likewise for
\* the queries, exactly one BoostSignal per distinct non-null key that has
\* an event with ts >= since; its impressions and clicks are the numbers of
\* impression and click events of that key in the window, its ctr is
\* clicks/impressions, or 0 when impressions is 0; older events and events
\* of other types count nowhere.
C18_BoostSignals ==
    [][(boosts'.n = boosts.n + 1 /\ boosts'.outcome = "returned") =>
          /\ SignalsRight(boosts'.category, "category", boosts'.since)
          /\ SignalsRight(boosts'.query, "query", boosts'.since)]_vars

\* with an impression of "jackets" in the window, another one before it
\* and a click of "hats", computeBoosts answered one impression for
\* "jackets" and ctr 0 for "hats"
C18_Witness ==
    /\ boosts.outcome = "returned" /\ boosts.since = 2
    /\ Len(SelectSeq(events, LAMBDA e : e.category = "jackets" /\ e.type = "impression")) = 2
    /\ \E sig \in boosts.category :
         sig.key = "jackets" /\ sig.impressions = 1 /\ sig.clicks = 0
    /\ \E sig \in boosts.category :
         sig.key = "hats" /\ sig.impressions = 0 /\ sig.clicks = 1 /\ sig.ctr.num = 0
    /\ \E sig \in boosts.query : sig.key = "q1" /\ sig.impressions = 1

(***************************************************************************)
(* Properties of searchProducts (specification SearchSpec)                 *)
(***************************************************************************)
\* where the claim locates the product array: the payload root if it is an
\* array, else the value of the first key present among products, items,
\* results, offers
FirstPresent(parsed) ==
    IF \A j \in 1..Len(PayloadKeys) : parsed.fields[PayloadKeys[j]].kind = "absent"
    THEN Absent
    ELSE parsed.fields[PayloadKeys[
            CHOOSE j \in 1..Len(PayloadKeys) :
                /\ parsed.fields[PayloadKeys[j]].kind # "absent"
                /\ \A k \in 1..(j - 1) : parsed.fields[PayloadKeys[k]].kind = "absent"]]
Located(parsed) ==
    IF parsed.root.kind = "array" THEN parsed.root ELSE FirstPresent(parsed)
ToolFailed == toolOutcome.kind # "returned"
SearchDone == searched # NotSearched

\* C19: searchProducts takes the products from the payload root if it is an
\* array, else from the first key present among products, items, results,
\* offers; it returns the empty sequence when no key is present or when the
\* content part is missing or not text; and it fails only when
\* executeMcpTool failed or the text is not valid JSON.
C19_PayloadPriority ==
    SearchDone =>
        /\ searched.kind # "returned" => ToolFailed \/ toolOutcome.content = "badjson"
        /\ ~ToolFailed /\ toolOutcome.content \in {"missing", "image"} =>
                searched = SearchReturned(<<>>)
        /\ ~ToolFailed /\ toolOutcome.content = "json" =>
                /\ Located(toolOutcome.parsed).kind = "absent" =>
                        searched = SearchReturned(<<>>)
                /\ Located(toolOutcome.parsed).kind = "array" =>
                        searched = SearchReturned(
                            [i \in DOMAIN Located(toolOutcome.parsed).items |->
                                normalizeProduct(Located(toolOutcome.parsed).items[i])])

(***************************************************************************)
(* Properties of the normalizer (specification NormalizerSpec)             *)
(***************************************************************************)
\* the entry carries one of the fields a title is read from
HasTitleLike(entry) ==
    \E value \in {entry.title, entry.name, entry.displayName} : ~Falsy(value)
NormalizeDone == normalized # NotNormalized

\* C22: for every raw entry of a supported shape, with any subset of its
\* fields missing, normalizeProduct returns a product and does not raise;
\* the product's title is never null or undefined, and it is the placeholder
\* when the entry has no title, name or displayName.
C22_NormalizerTotal ==
    NormalizeDone =>
        /\ normalized.kind = "returned"
        /\ ~Falsy(normalized.product.title)
        /\ ~HasTitleLike(rawEntry) => normalized.product.title = "Unknown Product"

\* an offer without title and displayName has been given the placeholder
C22_Witness ==
    /\ normalized.kind = "returned"
    /\ rawEntry.variants.present /\ rawEntry.variants.items # <<>>
    /\ ~HasTitleLike(rawEntry)
    /\ normalized.product.title = "Unknown Product"

(***************************************************************************)
(* Properties of the postgres module (specification ConnectSpec)           *)
(***************************************************************************)
\* C23: getPostgres returns the pool only once a connectPostgres call has
\* completed the probe and the schema creation; until then, also while a
\* connectPostgres call is in progress and after one has failed, it throws;
\* and no connectPostgres call resolves with a pool whose schema has not
\* been ensured.
C23_PoolOnlyAfterSchema ==
    /\ got.kind = "pool" => got.schema
    /\ got.kind = "threw" => ~got.schema
    /\ \A c \in Callers : cret[c].kind = "pool" => cret[c].schema
====
